---- MODULE Spec2Model ----
(***************************************************************************)
(* Model of src/protectionutilities.js: the independent guards and the     *)
(* composed guard runProtections.                                          *)
(*                                                                         *)
(* Value conventions.                                                      *)
(*  - A JavaScript BigInt argument is [t |-> "big", v |-> n]; a field that *)
(*    is missing from the caller's object is Undef.                        *)
(*  - A JavaScript Number is Fin(n, e), the decimal n * 10^-e (e >= 0), or *)
(*    NaN, +Infinity, -Infinity, or NumUndef (undefined).  Floating-point  *)
(*    rounding is not modelled: arithmetic on these decimals is exact.     *)
(*  - Times are epoch milliseconds as Date.now() returns them.             *)
(***************************************************************************)
EXTENDS Integers, Sequences, FiniteSets, TLC

VARIABLES
    args,          \* arguments of the guard call under test (guard specifications)
    ret,           \* what that call returned
    now,           \* Date.now()
    lastActionAt,  \* the Map lastActionAt (line 98): route key -> timestamp
    approvedAt,    \* history: route key -> time of its last ok=true cooldown pass
    mevFile,       \* content of MEV_FILE on disk
    pc,            \* position of the runProtections run, or of the read under way
    params,        \* the TradeIntent of the run
    trace,         \* names pushed by step()
    details,       \* the guard results computed so far in the run
    verdict,       \* what runProtections returned
    calls,         \* labels of the remote reads issued by the run, in order
                   \* (for one read: what the read did, in order)
    provider,      \* the endpoint pointer kept by dataprovider.js
    reads,         \* the reads under way at once, each with its own position
    runs           \* the runProtections runs under way at once

vars == <<args, ret, now, lastActionAt, approvedAt, mevFile,
          pc, params, trace, details, verdict, calls, provider, reads, runs>>

(***************************************************************************)
(* ENV CONFIG (lines 21-33), at the defaults the source gives.             *)
(***************************************************************************)
PROFIT_THRESHOLD_BPS == 100
PROFIT_THRESHOLD_USD == 0
COOLDOWN_MS == 3000
MAX_SLIPPAGE_BPS == 100
MEV_LOOKBACK_MS == 10000

(***************************************************************************)
(* Bounds of the model.                                                    *)
(***************************************************************************)
MaxAmt == 12         \* BigInt amounts range over -2..MaxAmt and a few scenario values
MaxUsd == 6          \* USD figures range over -2..MaxUsd and a few scenario values
ClockStart == 20000  \* Date.now() when the model starts
MaxElapsed == 12000  \* the clock stops advancing MaxElapsed ms after ClockStart
MaxQueue == 2        \* entries in the MEV queue file
TickMs == 1000       \* the clock advances in steps of TickMs (guard specifications)
ElapseMs == 5000     \* time between two runs of runProtections
MaxCandidates == 3   \* flash-loan candidates passed to isFlashLoanAvailable

Keys == {"routeA", "routeB"}

(***************************************************************************)
(* JavaScript values.                                                      *)
(***************************************************************************)
Big(n) == [t |-> "big", v |-> n]
Undef == [t |-> "undef", v |-> 0]

Fin(n, e) == [k |-> "fin", n |-> n, e |-> e]
NaN == [k |-> "nan", n |-> 0, e |-> 0]
PosInf == [k |-> "inf", n |-> 1, e |-> 0]
NegInf == [k |-> "inf", n |-> -1, e |-> 0]
NumUndef == [k |-> "undef", n |-> 0, e |-> 0]
NumNull == [k |-> "null", n |-> 0, e |-> 0]

RECURSIVE Pow10(_)
Pow10(k) == IF k = 0 THEN 1 ELSE 10 * Pow10(k - 1)

\* floor(v / 10^k), dividing digit by digit
RECURSIVE DivPow10(_, _)
DivPow10(v, k) == IF k = 0 THEN v ELSE DivPow10(v \div 10, k - 1)

\* Number.isFinite(x): true for a Number that is neither NaN nor infinite;
\* false for undefined (no coercion).
NumberIsFinite(x) == x.k = "fin"

\* x || 0 : the falsy Numbers (0, NaN) and undefined become 0.
OrZero(x) ==
    IF x.k \in {"nan", "undef", "null"} \/ (x.k = "fin" /\ x.n = 0) THEN Fin(0, 0) ELSE x

NoRet == [fn |-> "none"]


(***************************************************************************)
(* The state the other components are in while one guard is exercised on   *)
(* its own.                                                                *)
(***************************************************************************)
NoParams == [routeKey |-> "none"]
NoVerdict == [ok |-> FALSE, reason |-> "none"]
NoDetails == [step \in {} |-> NoRet]
EmptyMap == [k \in {} |-> 0]
NeverApproved == [k \in Keys |-> -1]
AbsentFile == [kind |-> "absent", q |-> <<>>]

PipelineIdle ==
    /\ pc = "idle"
    /\ params = NoParams
    /\ trace = <<>>
    /\ details = NoDetails
    /\ verdict = NoVerdict
    /\ calls = <<>>

pipeVars == <<pc, params, trace, details, verdict, calls>>
cooldownVars == <<lastActionAt, approvedAt>>

\* specifications without concurrent reads or runs leave these at rest
NoProvider == [active |-> 0, rotations |-> 0]
NoReads == <<>>
NoRuns == <<>>
NetIdle == provider = NoProvider /\ reads = NoReads /\ runs = NoRuns
netVars == <<provider, reads, runs>>

(***************************************************************************)
(* 1) SLIPPAGE  (lines 103-113)                                            *)
(* A comparison of undefined with a BigInt is false; subtracting or        *)
(* multiplying undefined and a BigInt raises a TypeError.                  *)
(***************************************************************************)
SlipThrown == [fn |-> "validateSlippage", thrown |-> TRUE, ok |-> FALSE,
               slippageBps |-> 0, reason |-> "TypeError"]

SlipResult(ok, bps, reason) ==
    [fn |-> "validateSlippage", thrown |-> FALSE, ok |-> ok,
     slippageBps |-> bps, reason |-> reason]

\* the ceiling compared with < instead of <=
validateSlippage_strict(expectedOut, minOut) ==
    IF expectedOut.t = "big" /\ expectedOut.v <= 0
    THEN SlipResult(FALSE, 10000, "expectedOut<=0")
    ELSE IF expectedOut.t = "big" /\ minOut.t = "big" /\ minOut.v > expectedOut.v
    THEN SlipResult(FALSE, 10000, "minOut>expectedOut")
    ELSE IF expectedOut.t # "big" \/ minOut.t # "big"
    THEN SlipThrown
    ELSE LET diff == expectedOut.v - minOut.v
             slippageBps == (diff * 10000) \div expectedOut.v
         IN  SlipResult(slippageBps < MAX_SLIPPAGE_BPS, slippageBps, "")

validateSlippage(expectedOut, minOut) ==
    IF expectedOut.t = "big" /\ expectedOut.v <= 0
    THEN SlipResult(FALSE, 10000, "expectedOut<=0")
    ELSE IF expectedOut.t = "big" /\ minOut.t = "big" /\ minOut.v > expectedOut.v
    THEN SlipResult(FALSE, 10000, "minOut>expectedOut")
    ELSE IF expectedOut.t # "big" \/ minOut.t # "big"
    THEN SlipThrown
    ELSE LET diff == expectedOut.v - minOut.v
             slippageBps == (diff * 10000) \div expectedOut.v
         IN  SlipResult(slippageBps <= MAX_SLIPPAGE_BPS, slippageBps, "")

(***************************************************************************)
(* Small helper to evaluate profit thresholds  (lines 169-179)             *)
(***************************************************************************)
ProfitInvalid ==
    [fn |-> "meetsProfitThresholdUSD", ok |-> FALSE, reason |-> "invalidInputs",
     profitUsd |-> NaN, notionalUsd |-> NaN, profitBps |-> 0]

\* p >= c for a finite Number p and an integer c
FinGeq(p, c) == IF c = 0 THEN p.n >= 0 ELSE p.n >= c * Pow10(p.e)

\* Math.floor((profit / notional) * 10000) for finite Numbers, notional > 0
FloorBps(profit, notional) ==
    LET x == notional.e + 4 - profit.e
    IN  IF profit.n = 0 THEN 0
        ELSE IF x >= 0 THEN (profit.n * Pow10(x)) \div notional.n
        ELSE DivPow10(profit.n \div notional.n, -x)

\* the two thresholds joined with "or" instead of "and"
meetsProfitThresholdUSD_either(profitUsd, notionalUsd) ==
    LET notional == OrZero(notionalUsd)
        profit == OrZero(profitUsd)
    IN  IF ~NumberIsFinite(profit) \/ ~NumberIsFinite(notional)
        THEN ProfitInvalid
        ELSE LET passUsd == FinGeq(profit, PROFIT_THRESHOLD_USD)
                 profitBps == IF notional.n > 0 THEN FloorBps(profit, notional) ELSE 0
                 passBps == profitBps >= PROFIT_THRESHOLD_BPS
             IN  [fn |-> "meetsProfitThresholdUSD", ok |-> passUsd \/ passBps,
                  reason |-> "", profitUsd |-> profit, notionalUsd |-> notional,
                  profitBps |-> profitBps]

meetsProfitThresholdUSD(profitUsd, notionalUsd) ==
    LET notional == OrZero(notionalUsd)
        profit == OrZero(profitUsd)
    IN  IF ~NumberIsFinite(profit) \/ ~NumberIsFinite(notional)
        THEN ProfitInvalid
        ELSE LET passUsd == FinGeq(profit, PROFIT_THRESHOLD_USD)
                 profitBps == IF notional.n > 0 THEN FloorBps(profit, notional) ELSE 0
                 passBps == profitBps >= PROFIT_THRESHOLD_BPS
             IN  [fn |-> "meetsProfitThresholdUSD", ok |-> passUsd /\ passBps,
                  reason |-> "", profitUsd |-> profit, notionalUsd |-> notional,
                  profitBps |-> profitBps]

(***************************************************************************)
(* 4) COOLDOWN  (lines 253-259)                                            *)
(* Returns the result and the Map after the call.                          *)
(***************************************************************************)
\* lastActionAt.get(key) || 0
GetOrZero(map, key) == IF key \in DOMAIN map THEN map[key] ELSE 0

\* lastActionAt.set(key, t)
MapSet(map, key, t) ==
    [k \in DOMAIN map \cup {key} |-> IF k = key THEN t ELSE map[k]]

CooldownResult(ok, msRemaining) ==
    [fn |-> "enforceCooldown", ok |-> ok, msRemaining |-> msRemaining]

\* the timestamp recorded before the window test, so a rejected call resets the timer
enforceCooldown_resets(map, key, t) ==
    LET last == GetOrZero(map, key)
    IN  IF t - last < COOLDOWN_MS
        THEN [ret |-> CooldownResult(FALSE, COOLDOWN_MS - (t - last)),
              map |-> MapSet(map, key, t)]
        ELSE [ret |-> CooldownResult(TRUE, 0), map |-> MapSet(map, key, t)]

enforceCooldown(map, key, t) ==
    LET last == GetOrZero(map, key)
    IN  IF t - last < COOLDOWN_MS
        THEN [ret |-> CooldownResult(FALSE, COOLDOWN_MS - (t - last)), map |-> map]
        ELSE [ret |-> CooldownResult(TRUE, 0), map |-> MapSet(map, key, t)]

(***************************************************************************)
(* 11) MEV RISK (with pruning)  (lines 372-393)                            *)
(* The file is absent, unreadable (readFileSync throws), malformed         *)
(* (JSON.parse throws), a JSON value that is no array, or an array q.  An  *)
(* array entry e is                                                        *)
(*   "num"    an object whose timestamp is the number e.ts,                *)
(*   "numstr" an object whose timestamp is a string spelling e.ts,         *)
(*   "nan"    an object whose timestamp coerces to NaN,                    *)
(*   "nots"   an object without timestamp (or a non-object value),         *)
(*   "null"   null.                                                        *)
(* writeOk says whether writeFileSync succeeds.  Returns the result and    *)
(* the file after the call.                                                *)
(***************************************************************************)
MevResult(risk) == [fn |-> "isMEVRisk", thrown |-> FALSE, risk |-> risk]

ArrayFile(q) == [kind |-> "array", q |-> q]

\* e?.timestamp ?? 0
EntryTs(e) == IF e.k \in {"null", "nots"} THEN 0 ELSE e.ts

\* now - ts < MEV_LOOKBACK_MS ; a comparison with NaN is false
EntryRecent(e, t) == e.k # "nan" /\ t - EntryTs(e) < MEV_LOOKBACK_MS

\* the window test inverted to <=, keeping an entry one millisecond too long
isMEVRisk_late(file, t, writeOk) ==
    IF file.kind = "absent" THEN [ret |-> MevResult(FALSE), file |-> file]
    ELSE IF file.kind \in {"unreadable", "malformed"}
    THEN [ret |-> MevResult(TRUE), file |-> file]
    ELSE IF file.kind # "array" THEN [ret |-> MevResult(FALSE), file |-> file]
    ELSE LET keep == SelectSeq(file.q,
                        LAMBDA e : e.k # "nan" /\ t - EntryTs(e) <= MEV_LOOKBACK_MS)
             recent == Len(keep) > 0
         IN  [ret |-> MevResult(recent),
              file |-> IF Len(keep) # Len(file.q) /\ writeOk
                       THEN ArrayFile(keep) ELSE file]

\* the catch block answering risk: false
isMEVRisk_failopen(file, t, writeOk) ==
    IF file.kind = "absent" THEN [ret |-> MevResult(FALSE), file |-> file]
    ELSE IF file.kind \in {"unreadable", "malformed"}
    THEN [ret |-> MevResult(FALSE), file |-> file]
    ELSE IF file.kind # "array" THEN [ret |-> MevResult(FALSE), file |-> file]
    ELSE LET keep == SelectSeq(file.q, LAMBDA e : EntryRecent(e, t))
             recent == Len(keep) > 0
         IN  [ret |-> MevResult(recent),
              file |-> IF Len(keep) # Len(file.q) /\ writeOk
                       THEN ArrayFile(keep) ELSE file]

\* an array entry without a usable timestamp counted as risk
isMEVRisk_countsAll(file, t, writeOk) ==
    IF file.kind = "absent" THEN [ret |-> MevResult(FALSE), file |-> file]
    ELSE IF file.kind \in {"unreadable", "malformed"}
    THEN [ret |-> MevResult(TRUE), file |-> file]
    ELSE IF file.kind # "array" THEN [ret |-> MevResult(FALSE), file |-> file]
    ELSE LET keep == SelectSeq(file.q,
                        LAMBDA e : e.k \in {"null", "nots", "nan"} \/ EntryRecent(e, t))
             recent == Len(keep) > 0
         IN  [ret |-> MevResult(recent),
              file |-> IF Len(keep) # Len(file.q) /\ writeOk
                       THEN ArrayFile(keep) ELSE file]

isMEVRisk(file, t, writeOk) ==
    IF file.kind = "absent" THEN [ret |-> MevResult(FALSE), file |-> file]
    ELSE IF file.kind \in {"unreadable", "malformed"}
    THEN [ret |-> MevResult(TRUE), file |-> file]
    ELSE IF file.kind # "array" THEN [ret |-> MevResult(FALSE), file |-> file]
    ELSE LET keep == SelectSeq(file.q, LAMBDA e : EntryRecent(e, t))
             recent == Len(keep) > 0
         IN  [ret |-> MevResult(recent),
              file |-> IF Len(keep) # Len(file.q) /\ writeOk
                       THEN ArrayFile(keep) ELSE file]

(***************************************************************************)
(* Remote reads, as a guard sees them.  readCall / readCallWithProvider    *)
(* (lines 46-64) either resolve with the value the operation returned      *)
(* (first attempt or retry) or reject after the retry failed; the guard    *)
(* catches the rejection.  A read outcome r has r.st = "ok" or "fail".     *)
(* Every read a guard issues is logged as [label, target].                 *)
(***************************************************************************)
ReadLog(label, target) == [label |-> label, target |-> target]

CHAINLINK_STALE_SECONDS == 180
DEFAULT_DECIMALS == 18
HIGH_GAS_GWEI == 300
GAS_LIMIT_MAX == 2000000

(***************************************************************************)
(* 3) PROFIT THRESHOLD via CHAINLINK feeds  (lines 182-250)                *)
(* o holds profitToken, profitAmountWei, notionalToken, notionalAmountWei  *)
(* and feeds, the tokens feedMap has a feed for.  env.feed[token] is the   *)
(* outcome of the feed read, [st, dec, answer, age] with dec and answer    *)
(* the Numbers Number(decRaw) and Number(rd[1]) and age = nowS -           *)
(* updatedAt; env.dec[token] the outcome of the decimals read, [st, dec].  *)
(* An amount ethers.formatUnits rejects is BadBig.                         *)
(***************************************************************************)
BadBig == [t |-> "bad", v |-> 0]

ProfitFail(reason) ==
    [fn |-> "meetsProfitThresholdUSD_Chainlink", ok |-> FALSE, reason |-> reason,
     profitUsd |-> NaN, notionalUsd |-> NaN, profitBps |-> 0]

\* the operation of fetchPrice on what the feed returned (lines 198-208)
FeedPrice_acceptsStale(r) ==
    IF ~NumberIsFinite(r.dec) \/ r.dec.n < 0 THEN NumNull
    ELSE IF ~NumberIsFinite(r.answer) \/ r.answer.n <= 0 THEN NumNull
    ELSE Fin(r.answer.n, r.dec.n)

FeedPrice(r) ==
    IF ~NumberIsFinite(r.dec) \/ r.dec.n < 0 THEN NumNull
    ELSE IF ~NumberIsFinite(r.answer) \/ r.answer.n <= 0 THEN NumNull
    ELSE IF CHAINLINK_STALE_SECONDS > 0 /\ r.age > CHAINLINK_STALE_SECONDS THEN NumNull
    ELSE Fin(r.answer.n, r.dec.n)

fetchPrice(token, o, env) ==
    IF token \notin o.feeds THEN [price |-> NumNull, calls |-> <<>>]
    ELSE LET r == env.feed[token]
         IN  [price |-> IF r.st = "ok" THEN FeedPrice(r) ELSE NumNull,
              calls |-> <<ReadLog("chainlink.latest", token)>>]

fetchTokenDecimals(token, env) ==
    IF token = "native" THEN [dec |-> DEFAULT_DECIMALS, calls |-> <<>>]
    ELSE LET r == env.dec[token]
         IN  [dec |-> IF r.st = "ok" THEN r.dec ELSE DEFAULT_DECIMALS,
              calls |-> <<ReadLog("erc20.decimals", token)>>]

\* Number(ethers.formatUnits(amountWei ?? 0n, dec)) * price
UsdValue(amountWei, dec, price) ==
    LET wei == IF amountWei.t = "big" THEN amountWei.v ELSE 0
    IN  Fin(wei * price.n, dec + price.e)

meetsProfitThresholdUSD_Chainlink(o, env) ==
    LET pp == fetchPrice(o.profitToken, o, env)
        np == fetchPrice(o.notionalToken, o, env)
        pd == fetchTokenDecimals(o.profitToken, env)
        nd == fetchTokenDecimals(o.notionalToken, env)
        issued == pp.calls \o np.calls \o pd.calls \o nd.calls
    IN  IF pp.price.k = "null" \/ np.price.k = "null"
        THEN [ret |-> ProfitFail("missingOrStaleFeed"), calls |-> issued]
        \* formatUnits throws inside the try: the catch of lines 247-249
        ELSE IF o.profitAmountWei.t = "bad" \/ o.notionalAmountWei.t = "bad"
        THEN [ret |-> ProfitFail("chainlinkError"), calls |-> issued]
        ELSE [ret |-> meetsProfitThresholdUSD(
                          UsdValue(o.profitAmountWei, pd.dec, pp.price),
                          UsdValue(o.notionalAmountWei, nd.dec, np.price)),
              calls |-> issued]

(***************************************************************************)
(* 2) GAS (EIP-1559 aware)  (lines 116-166)                                *)
(* Fees are in gwei (HIGH_GAS_WEI is 300 gwei).  A fee field is            *)
(* [t |-> "big", v], [t |-> "null"] (absent) or [t |-> "bad"] (a value     *)
(* BigInt() rejects).  env.fee is the outcome of getFeeData, env.gas that  *)
(* of estimateGas.                                                         *)
(***************************************************************************)
FeeNull == [t |-> "null", v |-> 0]

\* a ?? b
Coalesce(a, b) == IF a.t # "null" THEN a ELSE b

GasFail(reason) ==
    [fn |-> "assessGas", ok |-> FALSE, reason |-> reason, gasLimit |-> 0,
     using1559 |-> FALSE, fee |-> FeeNull]

\* the estimate requested together with the fee data, before the fee check
assessGas_estimatesFirst(txRequest, env) ==
    LET feeLog == <<ReadLog("feeData", "")>>
        gasLog == <<ReadLog("estimateGas", "")>>
    IN  IF env.fee.st # "ok" THEN [ret |-> GasFail("feeDataNull"), calls |-> feeLog]
        ELSE
        LET gasPrice == Coalesce(txRequest.gasPrice, env.fee.gasPrice)
            maxFeePerGas == Coalesce(txRequest.maxFeePerGas, env.fee.maxFeePerGas)
            maxPriorityFeePerGas ==
                Coalesce(txRequest.maxPriorityFeePerGas, env.fee.maxPriorityFeePerGas)
            using1559 == maxFeePerGas.t # "null" /\ maxPriorityFeePerGas.t # "null"
            applicable == IF using1559 THEN maxFeePerGas ELSE gasPrice
            gasLimit == IF env.gas.st = "ok" THEN env.gas.gasLimit ELSE 0
        IN  IF ~using1559 /\ gasPrice.t = "null"
            THEN [ret |-> GasFail("noGasPriceAndNo1559"), calls |-> feeLog \o gasLog]
            ELSE IF applicable.t = "bad"
            THEN [ret |-> GasFail(IF using1559 THEN "maxFeePerGasCastError"
                                  ELSE "gasPriceCastError"),
                  calls |-> feeLog \o gasLog]
            ELSE IF applicable.v > HIGH_GAS_GWEI
            THEN [ret |-> [GasFail(IF using1559 THEN "maxFeePerGasTooHigh"
                                   ELSE "gasPriceTooHigh")
                           EXCEPT !.fee = applicable, !.using1559 = using1559],
                  calls |-> feeLog \o gasLog]
            ELSE IF gasLimit = 0
            THEN [ret |-> GasFail("gasEstimationFailed"), calls |-> feeLog \o gasLog]
            ELSE IF gasLimit > GAS_LIMIT_MAX
            THEN [ret |-> [GasFail("gasLimitTooHigh") EXCEPT !.gasLimit = gasLimit],
                  calls |-> feeLog \o gasLog]
            ELSE [ret |-> [fn |-> "assessGas", ok |-> TRUE, reason |-> "",
                           gasLimit |-> gasLimit, using1559 |-> using1559,
                           fee |-> applicable],
                  calls |-> feeLog \o gasLog]

assessGas(txRequest, env) ==
    LET feeLog == <<ReadLog("feeData", "")>>
        gasLog == <<ReadLog("estimateGas", "")>>
    IN  IF env.fee.st # "ok" THEN [ret |-> GasFail("feeDataNull"), calls |-> feeLog]
        ELSE
        LET gasPrice == Coalesce(txRequest.gasPrice, env.fee.gasPrice)
            maxFeePerGas == Coalesce(txRequest.maxFeePerGas, env.fee.maxFeePerGas)
            maxPriorityFeePerGas ==
                Coalesce(txRequest.maxPriorityFeePerGas, env.fee.maxPriorityFeePerGas)
            using1559 == maxFeePerGas.t # "null" /\ maxPriorityFeePerGas.t # "null"
            applicable == IF using1559 THEN maxFeePerGas ELSE gasPrice
            gasLimit == IF env.gas.st = "ok" THEN env.gas.gasLimit ELSE 0
        IN  IF ~using1559 /\ gasPrice.t = "null"
            THEN [ret |-> GasFail("noGasPriceAndNo1559"), calls |-> feeLog]
            ELSE IF applicable.t = "bad"
            THEN [ret |-> GasFail(IF using1559 THEN "maxFeePerGasCastError"
                                  ELSE "gasPriceCastError"),
                  calls |-> feeLog]
            ELSE IF applicable.v > HIGH_GAS_GWEI
            THEN [ret |-> [GasFail(IF using1559 THEN "maxFeePerGasTooHigh"
                                   ELSE "gasPriceTooHigh")
                           EXCEPT !.fee = applicable, !.using1559 = using1559],
                  calls |-> feeLog]
            ELSE IF gasLimit = 0
            THEN [ret |-> GasFail("gasEstimationFailed"), calls |-> feeLog \o gasLog]
            ELSE IF gasLimit > GAS_LIMIT_MAX
            THEN [ret |-> [GasFail("gasLimitTooHigh") EXCEPT !.gasLimit = gasLimit],
                  calls |-> feeLog \o gasLog]
            ELSE [ret |-> [fn |-> "assessGas", ok |-> TRUE, reason |-> "",
                           gasLimit |-> gasLimit, using1559 |-> using1559,
                           fee |-> applicable],
                  calls |-> feeLog \o gasLog]

(***************************************************************************)
(* 7) WALLET BALANCE  (lines 319-331)                                      *)
(* token is "native" (falsy), "zero" (ethers.ZeroAddress) or a contract;   *)
(* BigInt(needed) raises a TypeError when needed is undefined.  env.bal    *)
(* is the outcome of the balance read, [st, balance].                      *)
(***************************************************************************)
\* a failed read counted as a balance of 0 in the comparison as well
hasWalletBalance_failsAsZero(token, needed, env) ==
    IF needed.t # "big"
    THEN [ret |-> [fn |-> "hasWalletBalance", thrown |-> TRUE, ok |-> FALSE,
                   balance |-> 0],
          calls |-> <<>>]
    ELSE LET bal == IF env.bal.st = "ok" THEN env.bal.balance ELSE 0
             label == IF token \in {"native", "zero"} THEN "getBalance"
                      ELSE "erc20.balanceOf"
         IN  [ret |-> [fn |-> "hasWalletBalance", thrown |-> FALSE,
                       ok |-> bal >= needed.v, balance |-> bal],
              calls |-> <<ReadLog(label, token)>>]

hasWalletBalance(token, needed, env) ==
    IF needed.t # "big"
    THEN [ret |-> [fn |-> "hasWalletBalance", thrown |-> TRUE, ok |-> FALSE,
                   balance |-> 0],
          calls |-> <<>>]
    ELSE LET bal == IF env.bal.st = "ok" THEN env.bal.balance ELSE 0
             label == IF token \in {"native", "zero"} THEN "getBalance"
                      ELSE "erc20.balanceOf"
         IN  [ret |-> [fn |-> "hasWalletBalance", thrown |-> FALSE,
                       ok |-> env.bal.st = "ok" /\ bal >= needed.v,
                       balance |-> bal],
              calls |-> <<ReadLog(label, token)>>]

(***************************************************************************)
(* 5) FLASHLOAN AVAILABILITY  (lines 262-303)                              *)
(* candidates is a sequence of [type, token]; env.aave and env.balancer    *)
(* are the toggles AAVE_LOAN and BAL_LOAN, env.liquid[i] says whether the  *)
(* balance read of candidate i resolves to balance >= needed (a failed     *)
(* read counts as not qualifying).                                         *)
(***************************************************************************)
\* the loop without its break: every candidate of the source is read
RECURSIVE CheckSource_noBreak(_, _, _, _)
CheckSource_noBreak(candidates, type, env, i) ==
    IF i > Len(candidates) THEN [ok |-> FALSE, calls |-> <<>>]
    ELSE IF candidates[i].type # type THEN CheckSource_noBreak(candidates, type, env, i + 1)
    ELSE LET log == <<ReadLog("erc20.balanceOf", candidates[i].token)>>
             rest == CheckSource_noBreak(candidates, type, env, i + 1)
         IN  [ok |-> env.liquid[i] \/ rest.ok, calls |-> log \o rest.calls]

\* the loop over one source's candidates: stops at the first that qualifies
RECURSIVE CheckSource(_, _, _, _)
CheckSource(candidates, type, env, i) ==
    IF i > Len(candidates) THEN [ok |-> FALSE, calls |-> <<>>]
    ELSE IF candidates[i].type # type THEN CheckSource(candidates, type, env, i + 1)
    ELSE LET log == <<ReadLog("erc20.balanceOf", candidates[i].token)>>
         IN  IF env.liquid[i] THEN [ok |-> TRUE, calls |-> log]
             ELSE LET rest == CheckSource(candidates, type, env, i + 1)
                  IN  [ok |-> rest.ok, calls |-> log \o rest.calls]

\* the second source looked at only when the first did not qualify
isFlashLoanAvailable_firstWins(candidates, env) ==
    IF ~env.aave /\ ~env.balancer
    THEN [ret |-> [fn |-> "isFlashLoanAvailable", ok |-> FALSE,
                   reason |-> "loansDisabledInEnv", aave |-> FALSE, balancer |-> FALSE],
          calls |-> <<>>]
    ELSE LET a == IF env.aave THEN CheckSource(candidates, "aave", env, 1)
                  ELSE [ok |-> FALSE, calls |-> <<>>]
             b == IF env.balancer /\ ~a.ok THEN CheckSource(candidates, "balancer", env, 1)
                  ELSE [ok |-> FALSE, calls |-> <<>>]
         IN  [ret |-> [fn |-> "isFlashLoanAvailable", ok |-> a.ok \/ b.ok,
                       reason |-> IF a.ok \/ b.ok THEN "" ELSE "noLiquidity",
                       aave |-> a.ok, balancer |-> b.ok],
              calls |-> a.calls \o b.calls]

isFlashLoanAvailable(candidates, env) ==
    IF ~env.aave /\ ~env.balancer
    THEN [ret |-> [fn |-> "isFlashLoanAvailable", ok |-> FALSE,
                   reason |-> "loansDisabledInEnv", aave |-> FALSE, balancer |-> FALSE],
          calls |-> <<>>]
    ELSE LET a == IF env.aave THEN CheckSource(candidates, "aave", env, 1)
                  ELSE [ok |-> FALSE, calls |-> <<>>]
             b == IF env.balancer THEN CheckSource(candidates, "balancer", env, 1)
                  ELSE [ok |-> FALSE, calls |-> <<>>]
         IN  [ret |-> [fn |-> "isFlashLoanAvailable", ok |-> a.ok \/ b.ok,
                       reason |-> IF a.ok \/ b.ok THEN "" ELSE "noLiquidity",
                       aave |-> a.ok, balancer |-> b.ok],
              calls |-> a.calls \o b.calls]

(***************************************************************************)
(* 9) V2 RESERVES, 10) V3 STATE  (lines 342-369)                           *)
(* The pool state read for the run: null when no pool address was given    *)
(* or the read failed.                                                     *)
(***************************************************************************)
getV2Reserves(pair, env) ==
    [ret |-> [fn |-> "getV2Reserves", null |-> env.pool.st # "ok"],
     calls |-> <<ReadLog("v2.getReserves", pair)>>]

getV3State(pool, env) ==
    [ret |-> [fn |-> "getV3State", null |-> env.pool.st # "ok"],
     calls |-> <<ReadLog("v3.slot0", pool)>>]

(***************************************************************************)
(* 6) FALLBACK TOKEN  (lines 66-73, 306-316)                               *)
(* env.held[i] is the outcome of the balance read of token i,              *)
(* [st, balance]; the first token with a balance above minAmt = 0 wins.    *)
(***************************************************************************)
FLASH_FALLBACK_TOKENS == <<>>

_resolveFlashFallbackTokens(runtimeList) ==
    LET list == IF Len(runtimeList) > 0 THEN runtimeList ELSE FLASH_FALLBACK_TOKENS
    IN  SubSeq(list, 1, IF Len(list) < 5 THEN Len(list) ELSE 5)

RECURSIVE chooseFrom(_, _, _)
chooseFrom(tokens, env, i) ==
    IF i > Len(tokens)
    THEN [ret |-> [fn |-> "chooseFallbackToken", ok |-> FALSE, token |-> ""],
          calls |-> <<>>]
    ELSE LET r == env.held[i]
             log == <<ReadLog("erc20.balanceOf", tokens[i])>>
         IN  IF r.st = "ok" /\ r.balance > 0
             THEN [ret |-> [fn |-> "chooseFallbackToken", ok |-> TRUE,
                            token |-> tokens[i]],
                   calls |-> log]
             ELSE LET rest == chooseFrom(tokens, env, i + 1)
                  IN  [ret |-> rest.ret, calls |-> log \o rest.calls]

chooseFallbackToken(tokens, env) == chooseFrom(tokens, env, 1)

(***************************************************************************)
(* 8) PROFIT LOCK  (lines 334-339), in cents, lockPct = 0.75               *)
(***************************************************************************)
\* Math.round(profitUsd * 100) for a finite Number
RoundCents(x) ==
    IF x.e <= 2 THEN x.n * Pow10(2 - x.e)
    ELSE (DivPow10(x.n, x.e - 3) + 5) \div 10

lockProfit(profitUsd) ==
    IF ~NumberIsFinite(profitUsd) \/ profitUsd.n <= 0
    THEN [fn |-> "lockProfit", locked |-> 0, leftover |-> 0]
    ELSE LET cents == RoundCents(profitUsd)
             locked == (3 * cents + 2) \div 4
         IN  [fn |-> "lockProfit", locked |-> locked, leftover |-> cents - locked]

(***************************************************************************)
(* Specification SpecSlippage: validateSlippage applied to every pair of   *)
(* arguments of AmtArgs.                                                   *)
(***************************************************************************)
AmtVals == (-2..MaxAmt) \cup {197, 199, 900, 989, 990, 1000}
AmtArgs == {Big(n) : n \in AmtVals} \cup {Undef}

InitSlippage ==
    /\ args \in [expectedOut : AmtArgs, minOut : AmtArgs]
    /\ ret = NoRet
    /\ now = ClockStart
    /\ lastActionAt = EmptyMap
    /\ approvedAt = NeverApproved
    /\ NetIdle
    /\ mevFile = AbsentFile
    /\ PipelineIdle

CallValidateSlippage ==
    /\ ret = NoRet
    /\ ret' = validateSlippage(args.expectedOut, args.minOut)
    /\ UNCHANGED <<args, now, mevFile>>
    /\ UNCHANGED cooldownVars
    /\ UNCHANGED pipeVars
    /\ UNCHANGED netVars

NextSlippage == CallValidateSlippage

SpecSlippage == InitSlippage /\ [][NextSlippage]_vars

(***************************************************************************)
(* Specification SpecProfitUSD: meetsProfitThresholdUSD applied to every   *)
(* pair of arguments of UsdArgs.                                           *)
(***************************************************************************)
UsdVals == (-2..MaxUsd) \cup {9, 10, 11, 99, 100, 101, 1000}
UsdArgs == {Fin(n, 0) : n \in UsdVals} \cup {Fin(5, 1), NaN, PosInf, NegInf, NumUndef}

InitProfitUSD ==
    /\ args \in [profitUsd : UsdArgs, notionalUsd : UsdArgs]
    /\ ret = NoRet
    /\ now = ClockStart
    /\ lastActionAt = EmptyMap
    /\ approvedAt = NeverApproved
    /\ NetIdle
    /\ mevFile = AbsentFile
    /\ PipelineIdle

CallMeetsProfitThresholdUSD ==
    /\ ret = NoRet
    /\ ret' = meetsProfitThresholdUSD(args.profitUsd, args.notionalUsd)
    /\ UNCHANGED <<args, now, mevFile>>
    /\ UNCHANGED cooldownVars
    /\ UNCHANGED pipeVars
    /\ UNCHANGED netVars

NextProfitUSD == CallMeetsProfitThresholdUSD

SpecProfitUSD == InitProfitUSD /\ [][NextProfitUSD]_vars

(***************************************************************************)
(* C8: validateSlippage on BigInt arguments fails with expectedOut<=0 when *)
(* expectedOut <= 0, else with minOut>expectedOut when minOut >            *)
(* expectedOut, else reports slippageBps = floor((expectedOut - minOut) *  *)
(* 10000 / expectedOut) and passes iff slippageBps <= MAX_SLIPPAGE_BPS,    *)
(* the boundary included: 1000/990 passes with 100 bps and 1000/900 fails  *)
(* with 1000 bps.                                                          *)
(***************************************************************************)
C8_SlippageContract ==
    (ret.fn = "validateSlippage" /\ args.expectedOut.t = "big" /\ args.minOut.t = "big") =>
        LET e == args.expectedOut.v
            m == args.minOut.v
        IN  /\ ~ret.thrown
            /\ (e <= 0) => (~ret.ok /\ ret.reason = "expectedOut<=0")
            /\ (e > 0 /\ m > e) => (~ret.ok /\ ret.reason = "minOut>expectedOut")
            /\ (e > 0 /\ m <= e) =>
                  /\ ret.slippageBps * e <= (e - m) * 10000
                  /\ (e - m) * 10000 < (ret.slippageBps + 1) * e
                  /\ ret.ok <=> (ret.slippageBps <= MAX_SLIPPAGE_BPS)
            /\ (e = 1000 /\ m = 990) => (ret.ok /\ ret.slippageBps = 100)
            /\ (e = 1000 /\ m = 900) => (~ret.ok /\ ret.slippageBps = 1000)

C8_Witness ==
    /\ ret.fn = "validateSlippage"
    /\ args.expectedOut = Big(1000)
    /\ args.minOut = Big(990)
    /\ ret.ok
    /\ ret.slippageBps = MAX_SLIPPAGE_BPS

(***************************************************************************)
(* C10: meetsProfitThresholdUSD returns ok=false with reason invalidInputs *)
(* whenever either argument is NaN or infinite; for finite arguments it    *)
(* returns ok=true iff profitUsd >= PROFIT_THRESHOLD_USD and profitBps >=  *)
(* PROFIT_THRESHOLD_BPS, with profitBps = floor(profitUsd / notionalUsd *  *)
(* 10000) when notionalUsd > 0 and 0 otherwise.                            *)
(***************************************************************************)
NonFinite(x) == x.k \in {"nan", "inf"}

\* bps = floor(p / n * 10000) for finite p and n > 0
IsFloorBps(bps, p, n) ==
    /\ bps * n.n * Pow10(p.e) <= p.n * Pow10(n.e + 4)
    /\ p.n * Pow10(n.e + 4) < (bps + 1) * n.n * Pow10(p.e)

C10_ProfitUSDContract ==
    (ret.fn = "meetsProfitThresholdUSD") =>
        LET p == args.profitUsd
            n == args.notionalUsd
        IN  /\ (NonFinite(p) \/ NonFinite(n)) =>
                  (~ret.ok /\ ret.reason = "invalidInputs")
            /\ (p.k = "fin" /\ n.k = "fin") =>
                  /\ (n.n > 0) => IsFloorBps(ret.profitBps, p, n)
                  /\ (n.n <= 0) => ret.profitBps = 0
                  /\ ret.ok <=> (p.n >= PROFIT_THRESHOLD_USD * Pow10(p.e)
                                   /\ ret.profitBps >= PROFIT_THRESHOLD_BPS)

\* the part of C10 the code satisfies: the infinite and the finite arguments
C10_FiniteOrInfinite ==
    (ret.fn = "meetsProfitThresholdUSD") =>
        LET p == args.profitUsd
            n == args.notionalUsd
        IN  /\ (p.k = "inf" \/ n.k = "inf") =>
                  (~ret.ok /\ ret.reason = "invalidInputs")
            /\ (p.k = "fin" /\ n.k = "fin") =>
                  /\ (n.n > 0) => IsFloorBps(ret.profitBps, p, n)
                  /\ (n.n <= 0) => ret.profitBps = 0
                  /\ ret.ok <=> (p.n >= PROFIT_THRESHOLD_USD * Pow10(p.e)
                                   /\ ret.profitBps >= PROFIT_THRESHOLD_BPS)

(***************************************************************************)
(* Specification SpecCooldown: enforceCooldown called for any key at any   *)
(* moment, the clock advancing by TickMs between calls.  args records the  *)
(* key, the time of the call and the state the call found.                 *)
(***************************************************************************)
InitCooldown ==
    /\ args = [key |-> "none", at |-> 0, before |-> EmptyMap, lastApproved |-> -1]
    /\ ret = NoRet
    /\ now = ClockStart
    /\ lastActionAt = EmptyMap
    /\ approvedAt = NeverApproved
    /\ NetIdle
    /\ mevFile = AbsentFile
    /\ PipelineIdle

Tick ==
    /\ now + TickMs <= ClockStart + MaxElapsed
    /\ now' = now + TickMs
    /\ UNCHANGED <<args, ret, mevFile>>
    /\ UNCHANGED cooldownVars
    /\ UNCHANGED pipeVars
    /\ UNCHANGED netVars

CallEnforceCooldown(key) ==
    LET r == enforceCooldown(lastActionAt, key, now)
    IN  /\ args' = [key |-> key, at |-> now, before |-> lastActionAt,
                    lastApproved |-> approvedAt[key]]
        /\ ret' = r.ret
        /\ lastActionAt' = r.map
        /\ approvedAt' = IF r.ret.ok THEN [approvedAt EXCEPT ![key] = now]
                         ELSE approvedAt
        /\ UNCHANGED <<now, mevFile>>
        /\ UNCHANGED pipeVars
        /\ UNCHANGED netVars

NextCooldown ==
    \/ Tick
    \/ \E key \in Keys : CallEnforceCooldown(key)

SpecCooldown == InitCooldown /\ [][NextCooldown]_vars

(***************************************************************************)
(* C4: a call of enforceCooldown at time now is rejected iff the key was   *)
(* last approved at a time last with now - last < COOLDOWN_MS; it then     *)
(* returns msRemaining = COOLDOWN_MS - (now - last) and leaves the Map     *)
(* unchanged.  Otherwise, also for a key never approved, it passes and     *)
(* records now.  A call that follows an approval at the same instant is    *)
(* rejected with msRemaining = COOLDOWN_MS.                                *)
(***************************************************************************)
C4_CooldownCheckThenSet ==
    (ret.fn = "enforceCooldown") =>
        LET last == args.lastApproved
            rejected == last # -1 /\ args.at - last < COOLDOWN_MS
        IN  /\ ret.ok <=> ~rejected
            /\ rejected =>
                  /\ ret.msRemaining = COOLDOWN_MS - (args.at - last)
                  /\ lastActionAt = args.before
            /\ ~rejected =>
                  /\ args.key \in DOMAIN lastActionAt
                  /\ lastActionAt[args.key] = args.at
                  /\ \A k \in Keys \ {args.key} :
                        /\ (k \in DOMAIN lastActionAt) <=> (k \in DOMAIN args.before)
                        /\ (k \in DOMAIN lastActionAt) => lastActionAt[k] = args.before[k]
            /\ (last = args.at) => (~ret.ok /\ ret.msRemaining = COOLDOWN_MS)

\* a second call right after an approval, rejected with the whole window remaining,
\* while the other key has been approved in between
C4_Witness ==
    /\ ret.fn = "enforceCooldown"
    /\ ~ret.ok
    /\ args.lastApproved = args.at
    /\ ret.msRemaining = COOLDOWN_MS
    /\ DOMAIN lastActionAt = Keys
    /\ now > ClockStart

(***************************************************************************)
(* Specification SpecMEV: isMEVRisk called at any moment on any queue file *)
(* of MevFiles, the clock advancing by TickMs between calls.  args records *)
(* the file the call found, the time of the call and whether the rewrite   *)
(* succeeded.                                                              *)
(***************************************************************************)
MevEntries ==
    {[k |-> "num", ts |-> t] :
        t \in {ClockStart - MEV_LOOKBACK_MS, ClockStart - 5000, ClockStart,
               ClockStart + 5000}}
    \cup {[k |-> "numstr", ts |-> ClockStart - 5000],
          [k |-> "nan", ts |-> 0], [k |-> "nots", ts |-> 0], [k |-> "null", ts |-> 0]}

RECURSIVE SeqsUpTo(_, _)
SeqsUpTo(S, n) ==
    IF n = 0 THEN {<<>>}
    ELSE LET shorter == SeqsUpTo(S, n - 1)
         IN  shorter \cup {Append(q, e) : q \in shorter, e \in S}

MevFiles ==
    {ArrayFile(q) : q \in SeqsUpTo(MevEntries, MaxQueue)}
    \cup {[kind |-> k, q |-> <<>>] : k \in {"absent", "unreadable", "malformed", "nonarray"}}

InitMEV ==
    /\ args = [file |-> AbsentFile, at |-> 0, writeOk |-> FALSE]
    /\ ret = NoRet
    /\ now = ClockStart
    /\ lastActionAt = EmptyMap
    /\ approvedAt = NeverApproved
    /\ NetIdle
    /\ mevFile \in MevFiles
    /\ PipelineIdle

CallIsMEVRisk(writeOk) ==
    LET r == isMEVRisk(mevFile, now, writeOk)
    IN  /\ args' = [file |-> mevFile, at |-> now, writeOk |-> writeOk]
        /\ ret' = r.ret
        /\ mevFile' = r.file
        /\ UNCHANGED now
        /\ UNCHANGED cooldownVars
        /\ UNCHANGED pipeVars
        /\ UNCHANGED netVars

NextMEV ==
    \/ Tick
    \/ \E writeOk \in BOOLEAN : CallIsMEVRisk(writeOk)

SpecMEV == InitMEV /\ [][NextMEV]_vars

(***************************************************************************)
(* C6 as stated: a queue file that deviates from a sequence of             *)
(* {timestamp: epoch-ms} records (unparsable text, a JSON value that is no *)
(* array, entries that are null or lack a numeric timestamp) makes         *)
(* isMEVRisk return risk=false, never a fatal error.                       *)
(***************************************************************************)
NoNumericTimestamp(e) == e.k \in {"null", "nots", "nan"}

Deviates(file) ==
    \/ file.kind \in {"malformed", "nonarray"}
    \/ /\ file.kind = "array"
       /\ Len(file.q) > 0
       /\ \A i \in 1..Len(file.q) : NoNumericTimestamp(file.q[i])

RECURSIVE KeptEntries(_, _)
KeptEntries(q, t) ==
    IF q = <<>> THEN <<>>
    ELSE (IF t - Head(q).ts < MEV_LOOKBACK_MS THEN <<Head(q)>> ELSE <<>>)
            \o KeptEntries(Tail(q), t)

WellFormedQueue(file) ==
    /\ file.kind = "array"
    /\ \A i \in 1..Len(file.q) : file.q[i].k = "num"

C7_KeepRecentPruneOld ==
    (ret.fn = "isMEVRisk" /\ WellFormedQueue(args.file)) =>
        LET q == args.file.q
            kept == KeptEntries(q, args.at)
            dropped == Len(kept) < Len(q)
        IN  /\ ~ret.thrown
            /\ ret.risk <=> (\E i \in 1..Len(q) : args.at - q[i].ts < MEV_LOOKBACK_MS)
            /\ (dropped /\ args.writeOk) => mevFile = ArrayFile(kept)
            /\ (~dropped \/ ~args.writeOk) => mevFile = args.file
            /\ (\A i \in 1..Len(q) : args.at - q[i].ts >= MEV_LOOKBACK_MS) =>
                  (~ret.risk /\ (args.writeOk => mevFile = ArrayFile(<<>>)))

\* Scenario C: the entry written 5000 ms before the start is read once it is
\* MEV_LOOKBACK_MS old: risk=false, and the file is rewritten without it
C7_Witness ==
    /\ ret.fn = "isMEVRisk"
    /\ args.file = ArrayFile(<<[k |-> "num", ts |-> ClockStart - 5000]>>)
    /\ args.at - (ClockStart - 5000) >= MEV_LOOKBACK_MS
    /\ args.writeOk
    /\ ~ret.risk
    /\ mevFile = ArrayFile(<<>>)

(***************************************************************************)
(* COMPOSED GUARD  runProtections  (lines 438-507)                         *)
(*                                                                         *)
(* The TradeIntents of the model.  A field the run cannot reach, because   *)
(* an earlier guard is certain to reject or to throw on the intent, is     *)
(* left at its default.                                                    *)
(***************************************************************************)
TraceOrder ==
    <<"cooldown", "mev", "slippage", "profit", "gas", "walletBalance",
      "flashLoan", "poolState", "fallback", "lock">>

RunKeys == {"routeA"}

SlippageInputs ==
    {<<Big(1000), Big(990)>>, <<Big(1000), Big(900)>>, <<Big(0), Big(0)>>,
     <<Undef, Undef>>}

ProfitInputs ==
    {<<Fin(20, 0), Fin(1000, 0)>>, <<Fin(5, 0), Fin(1000, 0)>>, <<NumUndef, NumUndef>>}

FeedMaps == {{"tokP", "tokN"}, {"tokN"}, {}}

NoOverrides == [gasPrice |-> FeeNull, maxFeePerGas |-> FeeNull,
                maxPriorityFeePerGas |-> FeeNull]

TxRequests == {NoOverrides, [NoOverrides EXCEPT !.gasPrice = Big(400)]}

NoBalance == [present |-> FALSE, token |-> "native", amountWei |-> Undef]

NeededBalances ==
    {NoBalance,
     [present |-> TRUE, token |-> "tokP", amountWei |-> Big(5)],
     [present |-> TRUE, token |-> "tokP", amountWei |-> Undef],
     [present |-> TRUE, token |-> "native", amountWei |-> Big(5)]}

FlashCandidateLists ==
    {<<>>, <<[type |-> "aave", token |-> "tokP"], [type |-> "balancer", token |-> "tokN"]>>}

PoolAddrs == {<<"", "">>, <<"pairX", "">>, <<"", "poolY">>}

FallbackLists == {<<>>, <<"tokP", "tokN">>}

Intent(key, sl, pr, feeds, tx, nb, fc, pool, fb) ==
    [routeKey |-> key, expectedOut |-> sl[1], minOut |-> sl[2],
     profitUsd |-> pr[1], notionalUsd |-> pr[2],
     profitToken |-> "tokP", profitAmountWei |-> Big(20),
     notionalToken |-> "tokN", notionalAmountWei |-> Big(1000), feeds |-> feeds,
     txRequest |-> tx, neededBalance |-> nb, flashCandidates |-> fc,
     v2PairAddr |-> pool[1], v3PoolAddr |-> pool[2], fallbackTokens |-> fb]

\* the slippage guard is certain to stop the run
StopsAtSlippage(p) == ~validateSlippage(p.expectedOut, p.minOut).ok

\* the profit guard is certain to stop the run
StopsAtProfit(p) ==
    IF NumberIsFinite(p.profitUsd) /\ NumberIsFinite(p.notionalUsd)
    THEN ~meetsProfitThresholdUSD(p.profitUsd, p.notionalUsd).ok
    ELSE ~({p.profitToken, p.notionalToken} \subseteq p.feeds)

\* the wallet balance guard is certain to throw
StopsAtBalance(p) ==
    p.neededBalance.present /\ p.neededBalance.token # "native"
        /\ p.neededBalance.amountWei.t # "big"

AfterGasDefault(p) ==
    /\ p.flashCandidates = <<>>
    /\ p.v2PairAddr = "" /\ p.v3PoolAddr = ""
    /\ p.fallbackTokens = <<>>

AfterProfitDefault(p) ==
    /\ p.txRequest = NoOverrides
    /\ p.neededBalance = NoBalance
    /\ AfterGasDefault(p)

Intents ==
    {p \in {Intent(key, sl, pr, feeds, tx, nb, fc, pool, fb) :
                key \in RunKeys, sl \in SlippageInputs, pr \in ProfitInputs,
                feeds \in FeedMaps, tx \in TxRequests, nb \in NeededBalances,
                fc \in FlashCandidateLists, pool \in PoolAddrs, fb \in FallbackLists} :
        /\ StopsAtSlippage(p) =>
              (p.profitUsd = Fin(20, 0) /\ p.feeds = {} /\ AfterProfitDefault(p))
        /\ StopsAtProfit(p) => AfterProfitDefault(p)
        /\ StopsAtBalance(p) => AfterGasDefault(p)}

(***************************************************************************)
(* What the remote reads of one guard may return.                          *)
(***************************************************************************)
ReadFailed == [st |-> "fail"]

FeedRead(st, dec, answer, age) == [st |-> st, dec |-> dec, answer |-> answer, age |-> age]

FeedReads ==
    {FeedRead("fail", Fin(0, 0), Fin(0, 0), 0),
     FeedRead("ok", Fin(0, 0), Fin(1, 0), 0),
     FeedRead("ok", Fin(1, 0), Fin(40, 0), 0),
     FeedRead("ok", Fin(0, 0), Fin(1, 0), CHAINLINK_STALE_SECONDS + 1),
     FeedRead("ok", Fin(0, 0), Fin(0, 0), 0),
     FeedRead("ok", Fin(-1, 0), Fin(1, 0), 0)}

DecimalsReads == {[st |-> "fail", dec |-> 0], [st |-> "ok", dec |-> DEFAULT_DECIMALS]}

Tokens == {"tokP", "tokN"}

OracleEnvs == [feed : [Tokens -> FeedReads], dec : [Tokens -> DecimalsReads]]

FeeReads ==
    {[st |-> "fail", gasPrice |-> FeeNull, maxFeePerGas |-> FeeNull,
      maxPriorityFeePerGas |-> FeeNull],
     [st |-> "ok", gasPrice |-> FeeNull, maxFeePerGas |-> FeeNull,
      maxPriorityFeePerGas |-> FeeNull],
     [st |-> "ok", gasPrice |-> Big(30), maxFeePerGas |-> FeeNull,
      maxPriorityFeePerGas |-> FeeNull],
     [st |-> "ok", gasPrice |-> Big(30), maxFeePerGas |-> Big(40),
      maxPriorityFeePerGas |-> Big(2)],
     [st |-> "ok", gasPrice |-> Big(30), maxFeePerGas |-> Big(HIGH_GAS_GWEI + 1),
      maxPriorityFeePerGas |-> Big(2)]}

GasReads ==
    {[st |-> "fail", gasLimit |-> 0], [st |-> "ok", gasLimit |-> 0],
     [st |-> "ok", gasLimit |-> 100000], [st |-> "ok", gasLimit |-> GAS_LIMIT_MAX + 1]}

GasEnvs == [fee : FeeReads, gas : GasReads]

BalanceEnvs ==
    [bal : {[st |-> "fail", balance |-> 0], [st |-> "ok", balance |-> 4],
            [st |-> "ok", balance |-> 5]}]

FlashEnvs(n) == [aave : BOOLEAN, balancer : BOOLEAN, liquid : [1..n -> BOOLEAN]]

PoolEnvs == [pool : {[st |-> "fail"], [st |-> "ok"]}]

FallbackEnvs(n) ==
    [held : [1..n -> {[st |-> "fail", balance |-> 0], [st |-> "ok", balance |-> 0],
                      [st |-> "ok", balance |-> 7]}]]

(***************************************************************************)
(* The run, one action per guard of the fixed order.                       *)
(***************************************************************************)
Tag(name, issued) ==
    [i \in 1..Len(issued) |->
        [step |-> name, label |-> issued[i].label, target |-> issued[i].target]]

\* the early return forgotten: a failing guard lets the run go on
Conclude_noReturn(name, r, issued, failed, reason, next) ==
    /\ details' = details @@ (name :> r)
    /\ trace' = Append(trace, name)
    /\ calls' = calls \o Tag(name, issued)
    /\ pc' = next
    /\ UNCHANGED verdict

\* the guard `name` returned r having issued `issued`: step(name), then the
\* `if (!r.ok) return {ok: false, reason, details: r, trace}` of the guard
Conclude(name, r, issued, failed, reason, next) ==
    /\ details' = details @@ (name :> r)
    /\ trace' = Append(trace, name)
    /\ calls' = calls \o Tag(name, issued)
    /\ IF failed
       THEN /\ pc' = "done"
            /\ verdict' = [ok |-> FALSE, reason |-> reason, details |-> r]
       ELSE /\ pc' = next
            /\ UNCHANGED verdict

\* an exception escapes the guard: the promise of runProtections rejects
Throw ==
    /\ pc' = "thrown"
    /\ UNCHANGED <<details, trace, calls, verdict>>

\* the else branch of a conditional guard: step(name) alone
Skip(name, next) ==
    /\ trace' = Append(trace, name)
    /\ pc' = next
    /\ UNCHANGED <<details, calls, verdict>>

guardVars == <<args, ret>>

Start(p) ==
    /\ pc = "idle"
    /\ pc' = "cooldown"
    /\ params' = p
    /\ trace' = <<>>
    /\ UNCHANGED <<details, verdict, calls, now, mevFile>>
    /\ UNCHANGED cooldownVars
    /\ UNCHANGED guardVars
    /\ UNCHANGED netVars

StepCooldown ==
    /\ pc = "cooldown"
    /\ LET cd == enforceCooldown(lastActionAt, params.routeKey, now)
       IN  /\ lastActionAt' = cd.map
           /\ approvedAt' = IF cd.ret.ok
                            THEN [approvedAt EXCEPT ![params.routeKey] = now]
                            ELSE approvedAt
           /\ Conclude("cooldown", cd.ret, <<>>, ~cd.ret.ok, "cooldown", "mev")
    /\ UNCHANGED <<params, now, mevFile>>
    /\ UNCHANGED guardVars
    /\ UNCHANGED netVars

StepMev ==
    /\ pc = "mev"
    /\ \E writeOk \in BOOLEAN :
          LET mev == isMEVRisk(mevFile, now, writeOk)
          IN  /\ mevFile' = mev.file
              /\ Conclude("mev", mev.ret, <<>>, mev.ret.risk, "mevRisk", "slippage")
    /\ UNCHANGED <<params, now>>
    /\ UNCHANGED cooldownVars
    /\ UNCHANGED guardVars
    /\ UNCHANGED netVars

StepSlippage ==
    /\ pc = "slippage"
    /\ LET slip == validateSlippage(params.expectedOut, params.minOut)
       IN  IF slip.thrown THEN Throw
           ELSE Conclude("slippage", slip, <<>>, ~slip.ok, "slippage", "profit")
    /\ UNCHANGED <<params, now, mevFile>>
    /\ UNCHANGED cooldownVars
    /\ UNCHANGED guardVars
    /\ UNCHANGED netVars

\* lines 463-472; the endpoint lookup `await getReadProvider()` of line 467 is
\* taken to resolve
StepProfit ==
    /\ pc = "profit"
    /\ IF NumberIsFinite(params.profitUsd) /\ NumberIsFinite(params.notionalUsd)
       THEN LET pt == meetsProfitThresholdUSD(params.profitUsd, params.notionalUsd)
            IN  Conclude("profit", pt, <<>>, ~pt.ok, "profitBelowThreshold", "gas")
       ELSE \E env \in OracleEnvs :
               LET pt == meetsProfitThresholdUSD_Chainlink(params, env)
               IN  Conclude("profit", pt.ret, pt.calls, ~pt.ret.ok,
                            "profitBelowThreshold", "gas")
    /\ UNCHANGED <<params, now, mevFile>>
    /\ UNCHANGED cooldownVars
    /\ UNCHANGED guardVars
    /\ UNCHANGED netVars

StepGas ==
    /\ pc = "gas"
    /\ \E env \in GasEnvs :
          LET gas == assessGas(params.txRequest, env)
          IN  Conclude("gas", gas.ret, gas.calls, ~gas.ret.ok, "gasBad", "walletBalance")
    /\ UNCHANGED <<params, now, mevFile>>
    /\ UNCHANGED cooldownVars
    /\ UNCHANGED guardVars
    /\ UNCHANGED netVars

\* lines 478-484; neededBalance?.token is falsy for a missing requirement and
\* for a requirement that names the native asset by a null token
StepWalletBalance ==
    /\ pc = "walletBalance"
    /\ IF params.neededBalance.present /\ params.neededBalance.token # "native"
       THEN \E env \in BalanceEnvs :
               LET wb == hasWalletBalance(params.neededBalance.token,
                                          params.neededBalance.amountWei, env)
               IN  IF wb.ret.thrown THEN Throw
                   ELSE Conclude("walletBalance", wb.ret, wb.calls, ~wb.ret.ok,
                                 "insufficientBalance", "flashLoan")
       ELSE Skip("walletBalance", "flashLoan")
    /\ UNCHANGED <<params, now, mevFile>>
    /\ UNCHANGED cooldownVars
    /\ UNCHANGED guardVars
    /\ UNCHANGED netVars

StepFlashLoan ==
    /\ pc = "flashLoan"
    /\ IF Len(params.flashCandidates) > 0
       THEN \E env \in FlashEnvs(Len(params.flashCandidates)) :
               LET fl == isFlashLoanAvailable(params.flashCandidates, env)
               IN  Conclude("flashLoan", fl.ret, fl.calls, ~fl.ret.ok,
                            "flashNotAvailable", "poolState")
       ELSE Skip("flashLoan", "poolState")
    /\ UNCHANGED <<params, now, mevFile>>
    /\ UNCHANGED cooldownVars
    /\ UNCHANGED guardVars
    /\ UNCHANGED netVars

NullReserves == [ret |-> [fn |-> "none", null |-> TRUE], calls |-> <<>>]

\* a failed pool state fetch rejecting the run
StepPoolState_blocking ==
    /\ pc = "poolState"
    /\ \E env \in PoolEnvs :
          LET reserves == IF params.v2PairAddr # ""
                          THEN getV2Reserves(params.v2PairAddr, env)
                          ELSE IF params.v3PoolAddr # ""
                          THEN getV3State(params.v3PoolAddr, env)
                          ELSE NullReserves
          IN  Conclude("poolState", reserves.ret, reserves.calls,
                       reserves.calls # <<>> /\ reserves.ret.null, "poolState", "fallback")
    /\ UNCHANGED <<params, now, mevFile>>
    /\ UNCHANGED cooldownVars
    /\ UNCHANGED guardVars
    /\ UNCHANGED netVars

StepPoolState ==
    /\ pc = "poolState"
    /\ \E env \in PoolEnvs :
          LET reserves == IF params.v2PairAddr # ""
                          THEN getV2Reserves(params.v2PairAddr, env)
                          ELSE IF params.v3PoolAddr # ""
                          THEN getV3State(params.v3PoolAddr, env)
                          ELSE NullReserves
          IN  Conclude("poolState", reserves.ret, reserves.calls, FALSE, "", "fallback")
    /\ UNCHANGED <<params, now, mevFile>>
    /\ UNCHANGED cooldownVars
    /\ UNCHANGED guardVars
    /\ UNCHANGED netVars

NullFallback ==
    [ret |-> [fn |-> "none", ok |-> FALSE, token |-> ""], calls |-> <<>>]

StepFallback ==
    /\ pc = "fallback"
    /\ LET fbTokens == _resolveFlashFallbackTokens(params.fallbackTokens)
       IN  \E env \in FallbackEnvs(Len(fbTokens)) :
              LET fallback == IF Len(fbTokens) > 0
                              THEN chooseFallbackToken(fbTokens, env)
                              ELSE NullFallback
              IN  Conclude("fallback", fallback.ret, fallback.calls, FALSE, "", "lock")
    /\ UNCHANGED <<params, now, mevFile>>
    /\ UNCHANGED cooldownVars
    /\ UNCHANGED guardVars
    /\ UNCHANGED netVars

StepLock ==
    /\ pc = "lock"
    /\ LET lock == lockProfit(details["profit"].profitUsd)
       IN  /\ details' = details @@ ("lock" :> lock)
           /\ trace' = Append(trace, "lock")
           /\ verdict' = [ok |-> TRUE, reason |-> "",
                          details |-> [slip |-> details["slippage"],
                                       pt |-> details["profit"],
                                       gas |-> details["gas"],
                                       reserves |-> details["poolState"],
                                       fallback |-> details["fallback"],
                                       lock |-> lock]]
           /\ pc' = "done"
    /\ UNCHANGED <<params, calls, now, mevFile>>
    /\ UNCHANGED cooldownVars
    /\ UNCHANGED guardVars
    /\ UNCHANGED netVars

\* the caller has taken the verdict (or the exception); the next run may start
Finish ==
    /\ pc \in {"done", "thrown"}
    /\ pc' = "idle"
    /\ params' = NoParams
    /\ trace' = <<>>
    /\ details' = NoDetails
    /\ verdict' = NoVerdict
    /\ calls' = <<>>
    /\ UNCHANGED <<now, mevFile>>
    /\ UNCHANGED cooldownVars
    /\ UNCHANGED guardVars
    /\ UNCHANGED netVars

\* time passes between two runs
Elapse ==
    /\ pc = "idle"
    /\ now + ElapseMs <= ClockStart + MaxElapsed
    /\ now' = now + ElapseMs
    /\ UNCHANGED mevFile
    /\ UNCHANGED pipeVars
    /\ UNCHANGED cooldownVars
    /\ UNCHANGED guardVars
    /\ UNCHANGED netVars

\* another module replaces the queue file between two runs
WrittenFiles(t) ==
    {[kind |-> k, q |-> <<>>] : k \in {"unreadable", "malformed", "nonarray"}}
    \cup {ArrayFile(<<[k |-> "num", ts |-> t]>>)}

MevWrite(file) ==
    /\ pc = "idle"
    /\ mevFile # file
    /\ mevFile' = file
    /\ UNCHANGED now
    /\ UNCHANGED pipeVars
    /\ UNCHANGED cooldownVars
    /\ UNCHANGED guardVars
    /\ UNCHANGED netVars

Init ==
    /\ args = NoRet
    /\ ret = NoRet
    /\ now = ClockStart
    /\ lastActionAt = EmptyMap
    /\ approvedAt = NeverApproved
    /\ NetIdle
    /\ mevFile = AbsentFile
    /\ PipelineIdle

Next ==
    \/ \E p \in Intents : Start(p)
    \/ StepCooldown
    \/ StepMev
    \/ StepSlippage
    \/ StepProfit
    \/ StepGas
    \/ StepWalletBalance
    \/ StepFlashLoan
    \/ StepPoolState
    \/ StepFallback
    \/ StepLock
    \/ Finish
    \/ Elapse
    \/ \E file \in WrittenFiles(now) : MevWrite(file)

Spec == Init /\ [][Next]_vars

(***************************************************************************)
(* Vocabulary of the claims about a run.                                   *)
(***************************************************************************)
StepIndex(name) == CHOOSE i \in 1..Len(TraceOrder) : TraceOrder[i] = name

RequiredSteps == {TraceOrder[i] : i \in 1..7}

\* the guard `name` returned a result that makes the run stop
GuardFailed(name, r) ==
    IF name = "mev" THEN r.risk
    ELSE IF name \in RequiredSteps THEN ~r.ok
    ELSE FALSE

ReasonOf(name) ==
    CASE name = "cooldown" -> "cooldown"
      [] name = "mev" -> "mevRisk"
      [] name = "slippage" -> "slippage"
      [] name = "profit" -> "profitBelowThreshold"
      [] name = "gas" -> "gasBad"
      [] name = "walletBalance" -> "insufficientBalance"
      [] name = "flashLoan" -> "flashNotAvailable"
      [] OTHER -> ""

TraceNames == {trace[i] : i \in 1..Len(trace)}

(***************************************************************************)
(* C1: the names in the trace are a prefix of the fixed order; when a      *)
(* guard among steps 1-7 fails, the run has returned ok=false with that    *)
(* guard's reason and details, the trace ends with that guard's step, no   *)
(* later guard has been evaluated and no later remote read issued; and a   *)
(* run returns ok=false only so.                                           *)
(***************************************************************************)
C1_ShortCircuit ==
    /\ Len(trace) <= Len(TraceOrder)
    /\ trace = SubSeq(TraceOrder, 1, Len(trace))
    /\ \A name \in DOMAIN details :
          (name \in RequiredSteps /\ GuardFailed(name, details[name])) =>
             /\ pc = "done"
             /\ ~verdict.ok
             /\ verdict.reason = ReasonOf(name)
             /\ verdict.details = details[name]
             /\ trace[Len(trace)] = name
             /\ \A other \in DOMAIN details : StepIndex(other) <= StepIndex(name)
             /\ \A i \in 1..Len(calls) : StepIndex(calls[i].step) <= StepIndex(name)
    /\ (pc = "done" /\ ~verdict.ok) =>
          /\ Len(trace) >= 1
          /\ trace[Len(trace)] \in RequiredSteps \cap DOMAIN details
          /\ GuardFailed(trace[Len(trace)], details[trace[Len(trace)]])

\* a run rejected by the gas guard after the oracle reads of the profit guard
C1_Witness ==
    /\ pc = "done"
    /\ ~verdict.ok
    /\ verdict.reason = "gasBad"
    /\ trace = SubSeq(TraceOrder, 1, 5)
    /\ \E i \in 1..Len(calls) : calls[i].step = "profit"
    /\ \E i \in 1..Len(calls) : calls[i].label = "estimateGas"

(***************************************************************************)
(* C2: runProtections never throws: for every TradeIntent, missing fields  *)
(* included, and every outcome of the endpoint source and of the remote    *)
(* reads, the run resolves to a verdict.                                   *)
(***************************************************************************)
C2_NeverThrows == pc # "thrown"

(***************************************************************************)
(* C3: a run that returns does so with ok=true iff every one of steps 1-7  *)
(* passed or was skipped; the trace then has all ten entries, and a failed *)
(* pool state fetch or fallback selection shows up as null / not found in  *)
(* the details of the ok=true verdict.                                     *)
(***************************************************************************)
C3_OkIffRequiredPassed ==
    (pc = "done") =>
        /\ verdict.ok <=>
              \A name \in RequiredSteps :
                 /\ name \in TraceNames
                 /\ (name \in DOMAIN details) => ~GuardFailed(name, details[name])
        /\ verdict.ok =>
              /\ trace = TraceOrder
              /\ verdict.details.reserves = details["poolState"]
              /\ verdict.details.fallback = details["fallback"]
              /\ (params.v2PairAddr = "" /\ params.v3PoolAddr = "")
                    => verdict.details.reserves.null
              /\ (params.fallbackTokens = <<>>) => ~verdict.details.fallback.ok

\* ok=true although the pool state fetch failed and no fallback token was found
C3_Witness ==
    /\ pc = "done"
    /\ verdict.ok
    /\ Len(trace) = Len(TraceOrder)
    /\ verdict.details.reserves.fn = "getV2Reserves"
    /\ verdict.details.reserves.null
    /\ verdict.details.fallback.fn = "chooseFallbackToken"
    /\ ~verdict.details.fallback.ok
    /\ \E i \in 1..Len(calls) : calls[i].step = "fallback"

(***************************************************************************)
(* C5: when reading or parsing the queue file throws, isMEVRisk returns    *)
(* risk=true without throwing, and the run that reached step 2 is rejected *)
(* with reason mevRisk before any remote read is issued.                   *)
(***************************************************************************)
C5_ReadErrorIsRisk ==
    ("mev" \in DOMAIN details /\ mevFile.kind \in {"unreadable", "malformed"}) =>
        /\ ~details["mev"].thrown
        /\ details["mev"].risk
        /\ pc = "done"
        /\ verdict = [ok |-> FALSE, reason |-> "mevRisk", details |-> details["mev"]]
        /\ trace = <<"cooldown", "mev">>
        /\ calls = <<>>

C5_Witness ==
    /\ pc = "done"
    /\ mevFile.kind = "malformed"
    /\ "mev" \in DOMAIN details
    /\ verdict.reason = "mevRisk"

(***************************************************************************)
(* C9 as stated: the run is rejected at the profit step if either the      *)
(* direct-USD or the oracle-derived assessment fails; in particular a run  *)
(* whose oracle feeds are missing does not pass step 4, whatever           *)
(* profitUsd / notionalUsd it supplies.                                    *)
(***************************************************************************)
FeedsMissing == ~({params.profitToken, params.notionalToken} \subseteq params.feeds)

C9_EitherAssessmentRejects ==
    ("profit" \in TraceNames /\ FeedsMissing) =>
        (pc = "done" /\ ~verdict.ok /\ verdict.reason = "profitBelowThreshold")

(***************************************************************************)
(* C9 amended: the profit step evaluates exactly one assessment, the       *)
(* direct-USD one when profitUsd and notionalUsd are both finite Numbers   *)
(* (no oracle read is then issued) and the oracle-derived one otherwise,   *)
(* and the run is rejected with profitBelowThreshold iff that assessment   *)
(* fails; the oracle-derived one fails whenever a feed is missing.         *)
(***************************************************************************)
DirectPasses(p, n) ==
    /\ p.n >= PROFIT_THRESHOLD_USD * Pow10(p.e)
    /\ IF n.n > 0
       THEN p.n * Pow10(n.e + 4) >= PROFIT_THRESHOLD_BPS * n.n * Pow10(p.e)
       ELSE 0 >= PROFIT_THRESHOLD_BPS

C9_OneAssessmentDecides ==
    ("profit" \in DOMAIN details) =>
        LET pt == details["profit"]
            direct == params.profitUsd.k = "fin" /\ params.notionalUsd.k = "fin"
            rejected == /\ pc = "done"
                        /\ ~verdict.ok
                        /\ verdict.reason = "profitBelowThreshold"
                        /\ trace = SubSeq(TraceOrder, 1, 4)
        IN  /\ rejected <=> ~pt.ok
            /\ direct =>
                  /\ pt.ok <=> DirectPasses(params.profitUsd, params.notionalUsd)
                  /\ \A i \in 1..Len(calls) : calls[i].step # "profit"
            /\ ~direct =>
                  /\ FeedsMissing => (~pt.ok /\ pt.reason = "missingOrStaleFeed")
                  /\ pt.ok =>
                        \A t \in {params.profitToken, params.notionalToken} :
                           \E i \in 1..Len(calls) :
                              calls[i].label = "chainlink.latest" /\ calls[i].target = t

\* direct figures pass while no feed is configured: the run goes on to the gas guard
C9_Witness ==
    /\ "gas" \in DOMAIN details
    /\ params.profitUsd.k = "fin"
    /\ params.feeds = {}
    /\ details["profit"].ok

(***************************************************************************)
(* Specification SpecOracle: meetsProfitThresholdUSD_Chainlink applied to  *)
(* every feed map, amount pair and read outcome of the sets below.  args   *)
(* holds the arguments and the outcomes env of the reads the call issues.  *)
(***************************************************************************)
OracleFeedReads ==
    FeedReads \cup
    {FeedRead("ok", NaN, Fin(1, 0), 0),
     FeedRead("ok", Fin(0, 0), NaN, 0),
     FeedRead("ok", Fin(0, 0), PosInf, 0),
     FeedRead("ok", Fin(0, 0), Fin(1, 0), CHAINLINK_STALE_SECONDS)}

OracleArgs ==
    [profitToken : {"tokP"}, notionalToken : {"tokN"},
     profitAmountWei : {Big(20), Big(5), Undef, BadBig},
     notionalAmountWei : {Big(1000), BadBig},
     feeds : SUBSET Tokens,
     env : [feed : [Tokens -> OracleFeedReads], dec : [Tokens -> DecimalsReads]]]

InitOracle ==
    /\ args \in OracleArgs
    /\ ret = NoRet
    /\ now = ClockStart
    /\ lastActionAt = EmptyMap
    /\ approvedAt = NeverApproved
    /\ NetIdle
    /\ mevFile = AbsentFile
    /\ PipelineIdle

CallMeetsProfitThresholdUSD_Chainlink ==
    /\ ret = NoRet
    /\ LET r == meetsProfitThresholdUSD_Chainlink(args, args.env)
       IN  /\ ret' = r.ret
           /\ calls' = r.calls
    /\ UNCHANGED <<args, now, mevFile, pc, params, trace, details, verdict>>
    /\ UNCHANGED cooldownVars
    /\ UNCHANGED netVars

NextOracle == CallMeetsProfitThresholdUSD_Chainlink

SpecOracle == InitOracle /\ [][NextOracle]_vars

(***************************************************************************)
(* C11: the oracle-derived profit guard fails closed.  If, for the profit  *)
(* token or the notional token, the feed is absent from the feed map, its  *)
(* read failed after the retry, its decimals are non-finite or negative,   *)
(* its answer is non-finite or <= 0, or its age exceeds the staleness      *)
(* window, the guard returns ok=false with reason missingOrStaleFeed       *)
(* whatever the amounts; it always returns a result; and the direct-USD    *)
(* calculation is applied only when both prices resolved.                  *)
(***************************************************************************)
FeedUnusable(token) ==
    LET r == args.env.feed[token]
    IN  \/ token \notin args.feeds
        \/ r.st = "fail"
        \/ r.dec.k # "fin" \/ r.dec.n < 0
        \/ r.answer.k # "fin" \/ r.answer.n <= 0
        \/ r.age > CHAINLINK_STALE_SECONDS

C11_OracleFailsClosed ==
    (ret # NoRet) =>
        LET unusable == FeedUnusable(args.profitToken) \/ FeedUnusable(args.notionalToken)
        IN  /\ ret.fn \in {"meetsProfitThresholdUSD_Chainlink", "meetsProfitThresholdUSD"}
            /\ unusable => (~ret.ok /\ ret.reason = "missingOrStaleFeed"
                            /\ ret.fn = "meetsProfitThresholdUSD_Chainlink")
            /\ (ret.fn = "meetsProfitThresholdUSD") => ~unusable
            /\ (~unusable /\ args.profitAmountWei.t # "bad"
                          /\ args.notionalAmountWei.t # "bad")
                  => ret.fn = "meetsProfitThresholdUSD"

\* the profit token's feed is stale while the amounts would pass: rejected
C11_Witness ==
    /\ ret # NoRet
    /\ args.feeds = Tokens
    /\ args.env.feed["tokP"] = FeedRead("ok", Fin(0, 0), Fin(1, 0), CHAINLINK_STALE_SECONDS + 1)
    /\ args.env.feed["tokN"] = FeedRead("ok", Fin(0, 0), Fin(1, 0), 0)
    /\ args.profitAmountWei = Big(20)
    /\ args.notionalAmountWei = Big(1000)
    /\ ret.reason = "missingOrStaleFeed"
    /\ Len(calls) = 4

(***************************************************************************)
(* Specification SpecGas: assessGas applied to every txRequest of          *)
(* GasTxRequests under every outcome of getFeeData and estimateGas.        *)
(***************************************************************************)
FeeFields == {FeeNull, Big(50), Big(400), [t |-> "bad", v |-> 0]}

GasTxRequests ==
    [gasPrice : FeeFields, maxFeePerGas : FeeFields, maxPriorityFeePerGas : FeeFields]

GasFeeReads ==
    FeeReads \cup
    {[st |-> "ok", gasPrice |-> FeeNull, maxFeePerGas |-> Big(40),
      maxPriorityFeePerGas |-> Big(2)],
     [st |-> "ok", gasPrice |-> Big(HIGH_GAS_GWEI), maxFeePerGas |-> FeeNull,
      maxPriorityFeePerGas |-> Big(2)]}

InitGas ==
    /\ args \in [txRequest : GasTxRequests, env : [fee : GasFeeReads, gas : GasReads]]
    /\ ret = NoRet
    /\ now = ClockStart
    /\ lastActionAt = EmptyMap
    /\ approvedAt = NeverApproved
    /\ NetIdle
    /\ mevFile = AbsentFile
    /\ PipelineIdle

CallAssessGas ==
    /\ ret = NoRet
    /\ LET r == assessGas(args.txRequest, args.env)
       IN  /\ ret' = r.ret
           /\ calls' = r.calls
    /\ UNCHANGED <<args, now, mevFile, pc, params, trace, details, verdict>>
    /\ UNCHANGED cooldownVars
    /\ UNCHANGED netVars

NextGas == CallAssessGas

SpecGas == InitGas /\ [][NextGas]_vars

(***************************************************************************)
(* C12: in assessGas the estimateGas call is issued only after the fee     *)
(* check has passed: when the guard rejects because fee data is            *)
(* unavailable, no fee shape is present, the applicable fee exceeds the    *)
(* ceiling or its coercion fails, no estimateGas call was attempted; an    *)
(* estimateGas call is the second call, after feeData.                     *)
(***************************************************************************)
FeeRejections ==
    {"feeDataNull", "noGasPriceAndNo1559", "maxFeePerGasTooHigh", "gasPriceTooHigh",
     "maxFeePerGasCastError", "gasPriceCastError"}

EstimateRequested == \E i \in 1..Len(calls) : calls[i].label = "estimateGas"

C12_EstimateAfterFeeCheck ==
    (ret # NoRet) =>
        /\ (~ret.ok /\ ret.reason \in FeeRejections) => ~EstimateRequested
        /\ EstimateRequested =>
              /\ calls = <<ReadLog("feeData", ""), ReadLog("estimateGas", "")>>
              /\ ret.ok \/ ret.reason \in {"gasEstimationFailed", "gasLimitTooHigh"}
        /\ ~EstimateRequested => ~ret.ok

\* scenario E: the fetched maxFeePerGas exceeds the ceiling
C12_Witness ==
    /\ ret # NoRet
    /\ args.txRequest = NoOverrides
    /\ args.env.fee.maxFeePerGas = Big(HIGH_GAS_GWEI + 1)
    /\ ret.reason = "maxFeePerGasTooHigh"
    /\ calls = <<ReadLog("feeData", "")>>

(***************************************************************************)
(* C13: in assessGas a caller-supplied fee field takes precedence over the *)
(* fetched value; the shape is EIP-1559 iff maxFeePerGas and               *)
(* maxPriorityFeePerGas are both present after merging, else legacy iff    *)
(* gasPrice is present, else the guard fails noGasPriceAndNo1559; the fee  *)
(* compared with the ceiling and returned on success is that of the        *)
(* authoritative shape; and so a fee the caller supplied is the one that   *)
(* is checked.                                                             *)
(***************************************************************************)
Supplied(f) == f.t # "null"

C13_CallerFeeIsChecked ==
    (ret # NoRet /\ args.env.fee.st = "ok") =>
        LET tx == args.txRequest
            fd == args.env.fee
            mfp == IF Supplied(tx.maxFeePerGas) THEN tx.maxFeePerGas ELSE fd.maxFeePerGas
            mpp == IF Supplied(tx.maxPriorityFeePerGas) THEN tx.maxPriorityFeePerGas
                   ELSE fd.maxPriorityFeePerGas
            gp == IF Supplied(tx.gasPrice) THEN tx.gasPrice ELSE fd.gasPrice
            eip == Supplied(mfp) /\ Supplied(mpp)
            callerFees == {f \in {tx.gasPrice, tx.maxFeePerGas} : Supplied(f)}
        IN  /\ (~eip /\ ~Supplied(gp)) <=> (ret.reason = "noGasPriceAndNo1559")
            /\ (ret.ok \/ ret.reason \in {"maxFeePerGasTooHigh", "gasPriceTooHigh"}) =>
                  /\ ret.using1559 = eip
                  /\ ret.fee = IF eip THEN mfp ELSE gp
                  /\ (callerFees # {}) => ret.fee \in callerFees

(***************************************************************************)
(* Specification SpecWallet: hasWalletBalance applied to the native asset  *)
(* (null token or ethers.ZeroAddress) and to a contract asset, for every   *)
(* required amount and every outcome of the balance read.                  *)
(***************************************************************************)
InitWallet ==
    /\ args \in [token : {"native", "zero", "tokP"},
                 needed : {Big(n) : n \in 0..MaxAmt} \cup {Undef},
                 env : [bal : {[st |-> "fail", balance |-> 0]} \cup
                              {[st |-> "ok", balance |-> n] : n \in 0..MaxAmt}]]
    /\ ret = NoRet
    /\ now = ClockStart
    /\ lastActionAt = EmptyMap
    /\ approvedAt = NeverApproved
    /\ NetIdle
    /\ mevFile = AbsentFile
    /\ PipelineIdle

CallHasWalletBalance ==
    /\ ret = NoRet
    /\ LET r == hasWalletBalance(args.token, args.needed, args.env)
       IN  /\ ret' = r.ret
           /\ calls' = r.calls
    /\ UNCHANGED <<args, now, mevFile, pc, params, trace, details, verdict>>
    /\ UNCHANGED cooldownVars
    /\ UNCHANGED netVars

NextWallet == CallHasWalletBalance

SpecWallet == InitWallet /\ [][NextWallet]_vars

(***************************************************************************)
(* C14 as stated: hasWalletBalance passes iff balance >= required, where   *)
(* balance is the value retrieved for the asset and a read that failed     *)
(* after its retry is treated as balance 0; a failed read never throws     *)
(* and the reported balance is then 0.                                     *)
(***************************************************************************)
Retrieved == IF args.env.bal.st = "ok" THEN args.env.bal.balance ELSE 0

C14_FailedReadIsZeroBalance ==
    (ret # NoRet /\ args.needed.t = "big") =>
        /\ ~ret.thrown
        /\ ret.ok <=> (Retrieved >= args.needed.v)
        /\ ret.balance = Retrieved

(***************************************************************************)
(* C14 amended: hasWalletBalance issues one read (the account query for   *)
(* the native asset, the balance-of query for a contract asset) and passes *)
(* iff that read succeeded and the balance it returned is >= required; a   *)
(* failed read never throws, reports balance 0 and is rejected, also when  *)
(* the required amount is 0.  A required amount BigInt() rejects makes the *)
(* call throw before any read is issued.                                   *)
(***************************************************************************)
C14_FailedReadRejects ==
    (ret # NoRet) =>
        IF args.needed.t = "big"
        THEN /\ ~ret.thrown
             /\ ret.ok <=> (args.env.bal.st = "ok" /\ args.env.bal.balance >= args.needed.v)
             /\ ret.balance = Retrieved
             /\ calls = <<ReadLog(IF args.token = "tokP" THEN "erc20.balanceOf"
                                  ELSE "getBalance", args.token)>>
        ELSE ret.thrown /\ calls = <<>>

\* nothing is required and the read fails: rejected with balance 0
C14_Witness ==
    /\ ret # NoRet
    /\ args.needed = Big(0)
    /\ args.env.bal.st = "fail"
    /\ ~ret.ok
    /\ ret.balance = 0

(***************************************************************************)
(* C15: in runProtections the wallet-balance guard is evaluated iff a      *)
(* balance requirement was supplied in the intent, for the native asset as *)
(* well as for a contract asset, and the flash-loan guard is evaluated iff *)
(* flash-loan candidates were supplied; a skipped step issues no remote    *)
(* call, does not reject the run and still appends its entry to the trace. *)
(***************************************************************************)
IssuedBy(name) == {i \in 1..Len(calls) : calls[i].step = name}

EvaluatedIff(name, supplied) ==
    (name \in TraceNames) =>
        /\ (name \in DOMAIN details) <=> supplied
        /\ (name \notin DOMAIN details) =>
              /\ IssuedBy(name) = {}
              /\ ~(pc = "done" /\ trace[Len(trace)] = name)

C15_ConditionalGuards ==
    /\ EvaluatedIff("walletBalance", params.neededBalance.present)
    /\ EvaluatedIff("flashLoan", Len(params.flashCandidates) > 0)

(***************************************************************************)
(* Specification SpecFlash: isFlashLoanAvailable applied to every list of  *)
(* up to MaxCandidates candidates, under every setting of the toggles      *)
(* AAVE_LOAN / BAL_LOAN and every outcome of the balance reads.            *)
(***************************************************************************)
FlashCandidates == [type : {"aave", "balancer"}, token : Tokens]

InitFlash ==
    /\ \E c \in SeqsUpTo(FlashCandidates, MaxCandidates) :
          args \in [candidates : {c}, env : FlashEnvs(Len(c))]
    /\ ret = NoRet
    /\ now = ClockStart
    /\ lastActionAt = EmptyMap
    /\ approvedAt = NeverApproved
    /\ NetIdle
    /\ mevFile = AbsentFile
    /\ PipelineIdle

CallIsFlashLoanAvailable ==
    /\ ret = NoRet
    /\ LET r == isFlashLoanAvailable(args.candidates, args.env)
       IN  /\ ret' = r.ret
           /\ calls' = r.calls
    /\ UNCHANGED <<args, now, mevFile, pc, params, trace, details, verdict>>
    /\ UNCHANGED cooldownVars
    /\ UNCHANGED netVars

NextFlash == CallIsFlashLoanAvailable

SpecFlash == InitFlash /\ [][NextFlash]_vars

(***************************************************************************)
(* C16: isFlashLoanAvailable issues balance reads only for candidates of   *)
(* enabled sources, per source in candidate order and stopping at the      *)
(* first qualifying candidate of that source; with both toggles off it     *)
(* fails with loansDisabledInEnv having issued no remote call, whatever    *)
(* the candidates.                                                         *)
(***************************************************************************)
SourceEnabled(type) == IF type = "aave" THEN args.env.aave ELSE args.env.balancer

\* candidate i qualifies for its source
Qualifies(i) == args.env.liquid[i]

\* the candidates of the source that are read: those with no qualifying
\* candidate of the same source before them
ReadOf(type) ==
    {i \in 1..Len(args.candidates) :
        /\ SourceEnabled(type)
        /\ args.candidates[i].type = type
        /\ \A j \in 1..(i - 1) : args.candidates[j].type = type => ~Qualifies(j)}

RECURSIVE InOrder(_)
InOrder(I) ==
    IF I = {} THEN <<>>
    ELSE LET i == CHOOSE x \in I : \A y \in I : x <= y
         IN  <<ReadLog("erc20.balanceOf", args.candidates[i].token)>> \o InOrder(I \ {i})

C16_ReadsOnlyWhereEnabled ==
    (ret # NoRet) =>
        /\ calls = InOrder(ReadOf("aave")) \o InOrder(ReadOf("balancer"))
        /\ (~args.env.aave /\ ~args.env.balancer) =>
              (~ret.ok /\ ret.reason = "loansDisabledInEnv" /\ calls = <<>>)

\* both sources on: the second aave candidate is not read, the first qualified
C16_Witness ==
    /\ ret # NoRet
    /\ args.env.aave /\ args.env.balancer
    /\ args.candidates = <<[type |-> "aave", token |-> "tokP"],
                           [type |-> "aave", token |-> "tokN"],
                           [type |-> "balancer", token |-> "tokP"]>>
    /\ args.env.liquid = <<TRUE, TRUE, FALSE>>
    /\ calls = <<ReadLog("erc20.balanceOf", "tokP"), ReadLog("erc20.balanceOf", "tokP")>>

(***************************************************************************)
(* C17: with at least one toggle on, isFlashLoanAvailable returns ok=true  *)
(* iff some enabled source has a candidate of its type whose balance read  *)
(* qualifies (a failed read does not); each source's outcome is reported   *)
(* whatever the other source's outcome, the second source being evaluated  *)
(* even when the first qualified; ok=false carries reason noLiquidity.     *)
(***************************************************************************)
SourceQualifies(type) ==
    /\ SourceEnabled(type)
    /\ \E i \in 1..Len(args.candidates) : args.candidates[i].type = type /\ Qualifies(i)

C17_OkIffSomeSourceQualifies ==
    (ret # NoRet /\ (args.env.aave \/ args.env.balancer)) =>
        /\ ret.ok <=> (SourceQualifies("aave") \/ SourceQualifies("balancer"))
        /\ ret.aave <=> SourceQualifies("aave")
        /\ ret.balancer <=> SourceQualifies("balancer")
        /\ ~ret.ok => ret.reason = "noLiquidity"
        /\ ret.ok => ret.reason = ""

\* both sources qualify and both are reported
C17_Witness ==
    /\ ret # NoRet
    /\ ret.ok /\ ret.aave /\ ret.balancer
    /\ Len(calls) = 2

(***************************************************************************)
(* 11) RESERVE CHECK (SAFE SIZE)  (lines 396-435)                          *)
(* a holds poolType, tokenIn, desiredAmount and slippagePercent (a Number, *)
(* NumUndef when the caller leaves it out); pool is what the contract      *)
(* reads return, [st, token0, token1, r0, r1, liquidity].  Token addresses *)
(* are compared in lower case; tokenIn "" is a missing tokenIn.            *)
(***************************************************************************)
\* Math.max(0, Math.min(99, Math.floor(slippagePercent || 1))), default 1
ClampPercent(x) ==
    IF x.k \in {"undef", "null", "nan"} \/ (x.k = "fin" /\ x.n = 0) THEN 1
    ELSE IF x.k = "inf" THEN (IF x.n > 0 THEN 99 ELSE 0)
    ELSE LET floor == DivPow10(x.n, x.e)
         IN  IF floor > 99 THEN 99 ELSE IF floor < 0 THEN 0 ELSE floor

NoSafeAmount == [fn |-> "reserveTradeCheck", safeAmount |-> 0, info |-> "null"]

reserveTradeCheck(a, pool) ==
    LET p == ClampPercent(a.slippagePercent)
    IN  IF a.poolType \notin {"V2", "V3"} THEN NoSafeAmount
        \* a rejected read, tokenIn.toLowerCase() of undefined, BigInt(desiredAmount)
        \* of a value it rejects: caught at line 431
        ELSE IF pool.st # "ok" THEN NoSafeAmount
        ELSE IF a.poolType = "V2" /\ a.tokenIn = "" THEN NoSafeAmount
        ELSE IF a.desiredAmount.t # "big" THEN NoSafeAmount
        ELSE LET base == IF a.poolType = "V3" THEN pool.liquidity
                         ELSE IF pool.token0 = a.tokenIn THEN pool.r0 ELSE pool.r1
                 cap == (base * (100 - p)) \div 100
                 want == a.desiredAmount.v
             IN  [fn |-> "reserveTradeCheck",
                  safeAmount |-> IF want < cap THEN want ELSE cap,
                  info |-> a.poolType]

(***************************************************************************)
(* Specification SpecReserve: reserveTradeCheck applied to both pool       *)
(* variants and an unknown one, for every argument and pool content of the *)
(* sets below.                                                             *)
(***************************************************************************)
PercentArgs ==
    {NumUndef, NaN, PosInf, Fin(-3, 0), Fin(0, 0), Fin(5, 1), Fin(1, 0), Fin(15, 1),
     Fin(50, 0), Fin(99, 0), Fin(100, 0), Fin(150, 0)}

PoolReads ==
    {[st |-> "fail", token0 |-> "tok0", token1 |-> "tok1", r0 |-> 0, r1 |-> 0,
      liquidity |-> 0]} \cup
    [st : {"ok"}, token0 : {"tok0"}, token1 : {"tok1"}, r0 : {0, MaxAmt, 1000},
     r1 : {7, 100}, liquidity : {0, MaxAmt, 1000}]

InitReserve ==
    /\ args \in [poolType : {"V2", "V3", "V4"}, tokenIn : {"tok0", "tok1", "tokX", ""},
                 desiredAmount : {Big(0), Big(5), Big(MaxAmt), Big(990), Big(2000), Undef},
                 slippagePercent : PercentArgs, pool : PoolReads]
    /\ ret = NoRet
    /\ now = ClockStart
    /\ lastActionAt = EmptyMap
    /\ approvedAt = NeverApproved
    /\ NetIdle
    /\ mevFile = AbsentFile
    /\ PipelineIdle

CallReserveTradeCheck ==
    /\ ret = NoRet
    /\ ret' = reserveTradeCheck(args, args.pool)
    /\ UNCHANGED <<args, now, mevFile>>
    /\ UNCHANGED cooldownVars
    /\ UNCHANGED pipeVars
    /\ UNCHANGED netVars

NextReserve == CallReserveTradeCheck

SpecReserve == InitReserve /\ [][NextReserve]_vars

(***************************************************************************)
(* C18: for a readable pool of either variant reserveTradeCheck returns    *)
(* safeAmount = min(desiredAmount, floor(baseQuantity * (100 - p) / 100))  *)
(* with p = slippagePercent clamped to [0, 99], so that slippagePercent =  *)
(* 0 gives p = 0 and a cap of baseQuantity; baseQuantity is the            *)
(* tokenIn-side reserve (constant product) or the liquidity figure         *)
(* (concentrated liquidity); an error or an unknown pool type yields       *)
(* safeAmount = 0 with info = null and no exception.                       *)
(***************************************************************************)
\* slippagePercent clamped to [0, 99]; 1 when the caller gives none
Clamped(x) ==
    IF x.k = "undef" THEN 1
    ELSE LET floor == DivPow10(x.n, x.e)
         IN  IF floor > 99 THEN 99 ELSE IF floor < 0 THEN 0 ELSE floor

Min(a, b) == IF a < b THEN a ELSE b

C18_SafeAmountIsClampedCap ==
    (ret # NoRet) =>
        LET pool == args.pool
            readable == /\ pool.st = "ok"
                        /\ args.desiredAmount.t = "big"
                        /\ \/ args.poolType = "V3"
                           \/ args.poolType = "V2" /\ args.tokenIn \in {pool.token0, pool.token1}
            base == IF args.poolType = "V3" THEN pool.liquidity
                    ELSE IF args.tokenIn = pool.token0 THEN pool.r0 ELSE pool.r1
        IN  /\ (readable /\ args.slippagePercent.k \in {"fin", "undef"}) =>
                  /\ ret.info # "null"
                  /\ ret.safeAmount =
                        Min(args.desiredAmount.v,
                            (base * (100 - Clamped(args.slippagePercent))) \div 100)
            /\ (pool.st # "ok" \/ args.poolType \notin {"V2", "V3"}) =>
                  (ret.safeAmount = 0 /\ ret.info = "null")

(***************************************************************************)
(* READ HELPERS  (lines 35-64): one readCall / readCallWithProvider.       *)
(* args holds the label, the function called and the deadline; calls logs  *)
(* what the read did: getReadProvider, invoke (with the attempt's outcome: *)
(* ok, error when the operation rejects, timeout when the deadline         *)
(* expires first), rotateProvider (with its reason), backoff.  The         *)
(* endpoint lookup is taken to resolve.  An attempt that times out lasts   *)
(* the deadline; the time other attempts take is not modelled.             *)
(***************************************************************************)
BACKOFF_MIN_MS == 120
BACKOFF_JITTER_MS == 160
READ_TIMEOUT_MS == 1500

NoError == [kind |-> "none", label |-> "", suffix |-> ""]

\* the label handed to withTimeout by the first attempt and by the retry
TimeoutLabel_sameForRetry(label, retry) == [label |-> label, suffix |-> "_timeout"]

TimeoutLabel(label, retry) ==
    [label |-> label, suffix |-> IF retry THEN "_timeout_retry" ELSE "_timeout"]

\* Promise.race of the operation with the timer: the timer rejects with
\* new Error(label), the operation with an error of its own
withTimeout(outcome, timeoutLabel) ==
    IF outcome = "ok" THEN [st |-> "resolved", error |-> NoError]
    ELSE IF outcome = "error"
    THEN [st |-> "rejected", error |-> [kind |-> "operation", label |-> "", suffix |-> ""]]
    ELSE [st |-> "rejected",
          error |-> [kind |-> "timeout", label |-> timeoutLabel.label,
                     suffix |-> timeoutLabel.suffix]]

ReadLabels == {"feeData", "estimateGas", "getBalance", "erc20.balanceOf", "chainlink.latest"}

InitRead ==
    /\ args \in [label : ReadLabels, fn : {"readCall", "readCallWithProvider"},
                 timeoutMs : {READ_TIMEOUT_MS}]
    /\ pc = IF args.fn = "readCall" THEN "read.lookup" ELSE "read.attempt"
    /\ ret = NoRet
    /\ calls = <<>>
    /\ now = ClockStart
    /\ lastActionAt = EmptyMap
    /\ approvedAt = NeverApproved
    /\ NetIdle
    /\ mevFile = AbsentFile
    /\ params = NoParams
    /\ trace = <<>>
    /\ details = NoDetails
    /\ verdict = NoVerdict

readVars == <<args, mevFile, params, trace, details, verdict>>

\* `await getReadProvider()`, lines 47 and 52 / 61
ReadLookup ==
    /\ pc \in {"read.lookup", "read.relookup"}
    /\ calls' = Append(calls, ReadLog("getReadProvider", ""))
    /\ pc' = IF pc = "read.lookup" THEN "read.attempt" ELSE "read.retry"
    /\ UNCHANGED <<ret, now>>
    /\ UNCHANGED readVars
    /\ UNCHANGED cooldownVars
    /\ UNCHANGED netVars

\* the first attempt (lines 49 / 58) and the retry (lines 53 / 62)
ReadAttempt(outcome) ==
    /\ pc \in {"read.attempt", "read.retry"}
    /\ calls' = Append(calls, ReadLog("invoke", outcome))
    /\ now' = IF outcome = "timeout" THEN now + args.timeoutMs ELSE now
    /\ LET r == withTimeout(outcome, TimeoutLabel(args.label, pc = "read.retry"))
       IN  IF r.st = "resolved" \/ pc = "read.retry"
           THEN /\ ret' = [fn |-> args.fn, st |-> r.st, error |-> r.error]
                /\ pc' = "read.settled"
           ELSE /\ pc' = "read.failover"
                /\ UNCHANGED ret
    /\ UNCHANGED readVars
    /\ UNCHANGED cooldownVars
    /\ UNCHANGED netVars

\* the rotation left out
ReadRotate_skipped ==
    /\ pc = "read.failover"
    /\ pc' = "read.backoff"
    /\ UNCHANGED <<ret, now, calls>>
    /\ UNCHANGED readVars
    /\ UNCHANGED cooldownVars
    /\ UNCHANGED netVars

\* try { rotateProvider(reason); } catch {}  (line 43)
ReadRotate ==
    /\ pc = "read.failover"
    /\ calls' = Append(calls, ReadLog("rotateProvider", args.label))
    /\ pc' = "read.backoff"
    /\ UNCHANGED <<ret, now>>
    /\ UNCHANGED readVars
    /\ UNCHANGED cooldownVars
    /\ UNCHANGED netVars

\* the timer of line 44: 120 + Math.floor(Math.random() * 160) ms
ReadBackoff(ms) ==
    /\ pc = "read.backoff"
    /\ calls' = Append(calls, ReadLog("backoff", ""))
    /\ now' = now + ms
    /\ pc' = "read.relookup"
    /\ UNCHANGED ret
    /\ UNCHANGED readVars
    /\ UNCHANGED cooldownVars
    /\ UNCHANGED netVars

NextRead ==
    \/ ReadLookup
    \/ \E outcome \in {"ok", "error", "timeout"} : ReadAttempt(outcome)
    \/ ReadRotate
    \/ \E ms \in {BACKOFF_MIN_MS, BACKOFF_MIN_MS + BACKOFF_JITTER_MS - 1} : ReadBackoff(ms)

SpecRead == InitRead /\ [][NextRead]_vars

(***************************************************************************)
(* C19: in any single readCall, if the first attempt succeeds the          *)
(* operation was invoked once and no rotation happened; if the first       *)
(* attempt errors or times out, exactly one rotation is requested with the *)
(* label as reason, then the backoff elapses, then the endpoint is looked  *)
(* up again and the operation is invoked exactly one more time, and the    *)
(* outcome of that retry is the outcome of the call.  The operation is     *)
(* never invoked more than twice and rotation never requested more than    *)
(* once.                                                                   *)
(***************************************************************************)
Logged(label) == {i \in 1..Len(calls) : calls[i].label = label}

\* what the call does before its first attempt
Preamble == IF args.fn = "readCall" THEN <<ReadLog("getReadProvider", "")>> ELSE <<>>

C19_RetryExactlyOnce ==
    /\ Cardinality(Logged("invoke")) <= 2
    /\ Cardinality(Logged("rotateProvider")) <= 1
    /\ (pc = "read.settled") =>
          LET first == calls[Len(Preamble) + 1].target
              last == calls[Len(calls)].target
          IN  /\ (first = "ok") =>
                    /\ calls = Preamble \o <<ReadLog("invoke", "ok")>>
                    /\ ret.st = "resolved"
              /\ (first # "ok") =>
                    /\ calls = Preamble \o
                                 <<ReadLog("invoke", first),
                                   ReadLog("rotateProvider", args.label),
                                   ReadLog("backoff", ""),
                                   ReadLog("getReadProvider", ""),
                                   ReadLog("invoke", last)>>
                    /\ ret.st = "resolved" <=> last = "ok"
                    /\ now >= ClockStart + BACKOFF_MIN_MS

\* scenario F: the first attempt fails, the retry after the rotation succeeds
C19_Witness ==
    /\ pc = "read.settled"
    /\ args.fn = "readCall"
    /\ ret.st = "resolved"
    /\ Cardinality(Logged("invoke")) = 2
    /\ Cardinality(Logged("rotateProvider")) = 1

(***************************************************************************)
(* C20 as stated: whenever both attempts of a read fail, whether by the    *)
(* operation raising an error or by the deadline being exceeded, the       *)
(* failure that propagates to the caller is a typed failure carrying the   *)
(* call's label and a _retry suffix.                                       *)
(***************************************************************************)
C20_SecondFailureIsLabelled ==
    (pc = "read.settled" /\ ret.st = "rejected") =>
        /\ ret.error.label = args.label
        /\ ret.error.suffix = "_timeout_retry"

(***************************************************************************)
(* C20 amended: when both attempts fail, the failure that propagates is    *)
(* that of the retry: if the retry exceeded its deadline it is the error   *)
(* <label>_timeout_retry, carrying the call's label and the _retry suffix; *)
(* if the retry's operation raised an error it is that error itself, with  *)
(* neither label nor suffix.  The first attempt's failure is never what    *)
(* propagates.                                                             *)
(***************************************************************************)
C20_RetryFailurePropagates ==
    (pc = "read.settled" /\ ret.st = "rejected") =>
        LET last == calls[Len(calls)].target
        IN  /\ Cardinality(Logged("invoke")) = 2
            /\ (last = "timeout") =>
                  ret.error = [kind |-> "timeout", label |-> args.label,
                               suffix |-> "_timeout_retry"]
            /\ (last = "error") =>
                  ret.error = [kind |-> "operation", label |-> "", suffix |-> ""]

\* the first attempt times out, the retry's operation rejects
C20_Witness ==
    /\ pc = "read.settled"
    /\ ret.st = "rejected"
    /\ ret.error.kind = "operation"
    /\ \E i \in Logged("invoke") : calls[i].target = "timeout"

(***************************************************************************)
(* CONCURRENT RUNS.  runProtections is an async function (line 437): a     *)
(* call executes synchronously up to its first await, and other runs of    *)
(* the process execute only while it is suspended.  Lines 451-461          *)
(* (cooldown, mev, slippage) and the direct profit check (line 465) hold   *)
(* no await; the first suspension is at line 467 or line 474.              *)
(***************************************************************************)
NumRuns == 2       \* runProtections calls of the process
MaxRunTicks == 3   \* the clock stops after MaxRunTicks half windows

RunIds == 1..NumRuns
HalfWindow == COOLDOWN_MS \div 2

\* what the synchronous guards after the cooldown conclude (lines 455-472)
SyncOutcomes == {"mevRisk", "slippage", "profitBelowThreshold", "thrown", "suspend"}
\* what the guards after the first await conclude (lines 467-506)
AsyncOutcomes == {"profitBelowThreshold", "gasBad", "insufficientBalance",
                  "flashNotAvailable", "thrown", "approved"}
LaterGuardReasons == {"mevRisk", "slippage", "profitBelowThreshold", "gasBad",
                      "insufficientBalance", "flashNotAvailable"}

NewRun == [pc |-> "new", key |-> "none", at |-> 0, n |-> 0, cd |-> FALSE,
           result |-> "none"]
Entered(rs) == {r \in DOMAIN rs : rs[r].pc # "new"}

InitRuns ==
    /\ args = NoRet
    /\ ret = NoRet
    /\ now = ClockStart
    /\ lastActionAt = EmptyMap
    /\ approvedAt = NeverApproved
    /\ mevFile = AbsentFile
    /\ PipelineIdle
    /\ provider = NoProvider
    /\ reads = NoReads
    /\ runs = [r \in RunIds |-> NewRun]

\* Date.now() advances while the runs are suspended or between two calls
RunsClock ==
    /\ now + HalfWindow <= ClockStart + MaxRunTicks * HalfWindow
    /\ now' = now + HalfWindow
    /\ UNCHANGED <<args, ret, mevFile, provider, reads, runs>>
    /\ UNCHANGED cooldownVars
    /\ UNCHANGED pipeVars

\* the cooldown is checked but the map is not written in the same step
RunEnter_checkWithoutSet(r, key, sync) ==
    /\ runs[r].pc = "new"
    /\ LET cd == enforceCooldown(lastActionAt, key, now)
           result == IF ~cd.ret.ok THEN "cooldown" ELSE sync
       IN  /\ lastActionAt' = lastActionAt
           /\ approvedAt' = approvedAt
           /\ runs' = [runs EXCEPT ![r] =
                          [pc |-> IF result = "suspend" THEN "awaiting" ELSE "done",
                           key |-> key, at |-> now,
                           n |-> Cardinality(Entered(runs)) + 1,
                           cd |-> cd.ret.ok, result |-> result]]
    /\ UNCHANGED <<args, ret, now, mevFile, provider, reads>>
    /\ UNCHANGED pipeVars

\* a call of runProtections up to its first await or its return
\* (lines 438-474): enforceCooldown reads and writes the map in this step
RunEnter(r, key, sync) ==
    /\ runs[r].pc = "new"
    /\ LET cd == enforceCooldown(lastActionAt, key, now)
           result == IF ~cd.ret.ok THEN "cooldown" ELSE sync
       IN  /\ lastActionAt' = cd.map
           /\ approvedAt' = IF cd.ret.ok THEN [approvedAt EXCEPT ![key] = now]
                            ELSE approvedAt
           /\ runs' = [runs EXCEPT ![r] =
                          [pc |-> IF result = "suspend" THEN "awaiting" ELSE "done",
                           key |-> key, at |-> now,
                           n |-> Cardinality(Entered(runs)) + 1,
                           cd |-> cd.ret.ok, result |-> result]]
    /\ UNCHANGED <<args, ret, now, mevFile, provider, reads>>
    /\ UNCHANGED pipeVars

\* a rejection after the await takes the key's timestamp back
RunResume_rollsBack(r, async) ==
    /\ runs[r].pc = "awaiting"
    /\ runs' = [runs EXCEPT ![r].pc = "done", ![r].result = async]
    /\ lastActionAt' = IF async = "approved" THEN lastActionAt
                       ELSE [k \in DOMAIN lastActionAt \ {runs[r].key}
                                |-> lastActionAt[k]]
    /\ UNCHANGED <<args, ret, now, mevFile, approvedAt, provider, reads>>
    /\ UNCHANGED pipeVars

\* the rest of the run, from its first await to its return (lines 467-506):
\* nothing there touches lastActionAt
RunResume(r, async) ==
    /\ runs[r].pc = "awaiting"
    /\ runs' = [runs EXCEPT ![r].pc = "done", ![r].result = async]
    /\ UNCHANGED <<args, ret, now, mevFile, provider, reads>>
    /\ UNCHANGED cooldownVars
    /\ UNCHANGED pipeVars

NextRuns ==
    \/ RunsClock
    \/ \E r \in RunIds, key \in Keys, sync \in SyncOutcomes : RunEnter(r, key, sync)
    \/ \E r \in RunIds, async \in AsyncOutcomes : RunResume(r, async)

SpecRuns == InitRuns /\ [][NextRuns]_vars

\* C25: a run that passed the cooldown step keeps the route key's timestamp
\* at its own time whatever it concludes afterwards, so every later run for
\* that key that starts within the cooldown window of it is rejected with
\* reason cooldown, also when the earlier run was rejected by a later guard
C25_TimestampNotRolledBack ==
    \A r1 \in RunIds :
        runs[r1].cd =>
            /\ GetOrZero(lastActionAt, runs[r1].key) >= runs[r1].at
            /\ \A r2 \in RunIds :
                  ( /\ runs[r2].pc # "new"
                    /\ runs[r2].key = runs[r1].key
                    /\ runs[r2].n > runs[r1].n
                    /\ runs[r2].at - runs[r1].at < COOLDOWN_MS )
                  => (~runs[r2].cd /\ runs[r2].result = "cooldown")

\* a run rejected by a later guard, then a run for the same key within the
\* window rejected by the cooldown, and no run approved
C25_Witness ==
    \E r1, r2 \in RunIds :
        /\ runs[r1].cd /\ runs[r1].pc = "done"
        /\ runs[r1].result \in LaterGuardReasons
        /\ runs[r2].key = runs[r1].key
        /\ runs[r2].n > runs[r1].n
        /\ runs[r2].at - runs[r1].at < COOLDOWN_MS
        /\ runs[r2].result = "cooldown"
        /\ \A r \in RunIds : runs[r].result # "approved"

\* C26: under every interleaving of the runs, two runs for the same route
\* key that both pass the cooldown step pass it at times at least
\* COOLDOWN_MS apart
C26_OnePassPerWindow ==
    \A r1, r2 \in RunIds :
        ( /\ r1 # r2
          /\ runs[r1].cd /\ runs[r2].cd
          /\ runs[r1].key = runs[r2].key
          /\ runs[r1].at <= runs[r2].at )
        => runs[r2].at - runs[r1].at >= COOLDOWN_MS

\* a run is suspended after passing the cooldown, and a concurrent run for
\* the same key was rejected by the cooldown within the window
C26_Witness ==
    \E r1, r2 \in RunIds :
        /\ runs[r1].pc = "awaiting" /\ runs[r1].cd
        /\ runs[r2].key = runs[r1].key
        /\ runs[r2].n > runs[r1].n
        /\ ~runs[r2].cd /\ runs[r2].result = "cooldown"
        /\ runs[r2].at - runs[r1].at < COOLDOWN_MS

(***************************************************************************)
(* CONCURRENT READS.  Several reads are under way at once: the four        *)
(* sub-fetches of the oracle guard (Promise.all, lines 232-237), each a    *)
(* readCallWithProvider on the handle the caller looked up at line 467,    *)
(* and readCalls of other runs of the process.  The endpoint pool is kept  *)
(* by dataprovider.js (line 8): an ordered set of endpoints with one       *)
(* active pointer, which a rotation advances.  The reads are numbered with  *)
(* the sub-fetches of the guard first, and the pool starts at its first    *)
(* endpoint: the reads of the same kind are interchangeable and the pool   *)
(* is cyclic.                                                              *)
(***************************************************************************)
NumEndpoints == 2  \* endpoints of the pool
NumReads == 2      \* reads under way at once

Endpoints == 0..(NumEndpoints - 1)
ReadIds == 1..NumReads
NoHandle == {}

\* getReadProvider(): the handle of the active endpoint
getReadProvider(pool) == {pool.active}

\* rotateProvider(reason): the pointer advances to the next endpoint
rotateProvider(pool) ==
    [active |-> (pool.active + 1) % NumEndpoints, rotations |-> pool.rotations + 1]

\* a read about to start: readCall begins with a lookup (line 47),
\* readCallWithProvider with the attempt on the supplied handle (line 58)
NewRead(fn, step, supplied) ==
    [fn |-> fn, step |-> step,
     pc |-> IF fn = "readCall" THEN "lookup" ELSE "attempt",
     supplied |-> IF fn = "readCall" THEN NoHandle ELSE supplied,
     handle |-> IF fn = "readCall" THEN NoHandle ELSE supplied,
     first |-> NoHandle, firstOut |-> "none",
     second |-> NoHandle, secondOut |-> "none",
     abandoned |-> 0]

InitNet ==
    /\ args = NoRet
    /\ ret = NoRet
    /\ now = ClockStart
    /\ lastActionAt = EmptyMap
    /\ approvedAt = NeverApproved
    /\ mevFile = AbsentFile
    /\ PipelineIdle
    /\ runs = NoRuns
    /\ provider = [active |-> 0, rotations |-> 0]
    /\ \E k \in 0..NumReads :
          reads = [r \in ReadIds |->
                      IF r <= k
                      THEN NewRead("readCallWithProvider", "profit",
                                   getReadProvider(provider))
                      ELSE NewRead("readCall", "gas", NoHandle)]

\* the retry goes to the handle the read already holds
NetLookup_keepsHandle(r) ==
    /\ reads[r].pc \in {"lookup", "relookup"}
    /\ reads' = [reads EXCEPT
                    ![r].pc = IF reads[r].pc = "lookup" THEN "attempt" ELSE "retry",
                    ![r].handle = IF reads[r].pc = "lookup"
                                  THEN getReadProvider(provider)
                                  ELSE reads[r].first]
    /\ UNCHANGED <<args, ret, now, mevFile, provider, runs>>
    /\ UNCHANGED cooldownVars
    /\ UNCHANGED pipeVars

\* await getReadProvider() (lines 47, 52, 61)
NetLookup(r) ==
    /\ reads[r].pc \in {"lookup", "relookup"}
    /\ reads' = [reads EXCEPT
                    ![r].pc = IF reads[r].pc = "lookup" THEN "attempt" ELSE "retry",
                    ![r].handle = getReadProvider(provider)]
    /\ UNCHANGED <<args, ret, now, mevFile, provider, runs>>
    /\ UNCHANGED cooldownVars
    /\ UNCHANGED pipeVars

\* withTimeout(execWithLimiter(() => fn(handle)), ...) (lines 49, 53, 58, 62):
\* the operation resolves, rejects, or is still running when the timer of
\* withTimeout rejects; the race does not stop the operation
NetAttempt(r, outcome) ==
    /\ reads[r].pc \in {"attempt", "retry"}
    /\ reads' = [reads EXCEPT
                    ![r].pc = IF outcome = "ok" \/ reads[r].pc = "retry"
                              THEN "settled" ELSE "failover",
                    ![r].handle = NoHandle,
                    ![r].first = IF reads[r].pc = "attempt"
                                 THEN reads[r].handle ELSE @,
                    ![r].firstOut = IF reads[r].pc = "attempt" THEN outcome ELSE @,
                    ![r].second = IF reads[r].pc = "retry"
                                  THEN reads[r].handle ELSE @,
                    ![r].secondOut = IF reads[r].pc = "retry" THEN outcome ELSE @,
                    ![r].abandoned = IF outcome = "timeout" THEN @ + 1 ELSE @]
    /\ UNCHANGED <<args, ret, now, mevFile, provider, runs>>
    /\ UNCHANGED cooldownVars
    /\ UNCHANGED pipeVars

\* the failed read goes to its backoff without asking for a rotation
NetRotate_skipped(r) ==
    /\ reads[r].pc = "failover"
    /\ reads' = [reads EXCEPT ![r].pc = "backoff"]
    /\ provider' = provider
    /\ UNCHANGED <<args, ret, now, mevFile, runs>>
    /\ UNCHANGED cooldownVars
    /\ UNCHANGED pipeVars

\* readFailover: rotateProvider(reason) (line 43)
NetRotate(r) ==
    /\ reads[r].pc = "failover"
    /\ reads' = [reads EXCEPT ![r].pc = "backoff"]
    /\ provider' = rotateProvider(provider)
    /\ UNCHANGED <<args, ret, now, mevFile, runs>>
    /\ UNCHANGED cooldownVars
    /\ UNCHANGED pipeVars

\* readFailover: the backoff timer fires (line 44)
NetBackoff(r) ==
    /\ reads[r].pc = "backoff"
    /\ reads' = [reads EXCEPT ![r].pc = "relookup"]
    /\ UNCHANGED <<args, ret, now, mevFile, provider, runs>>
    /\ UNCHANGED cooldownVars
    /\ UNCHANGED pipeVars

\* an operation that lost the race of withTimeout ends in the background
NetOperationEnds(r) ==
    /\ reads[r].abandoned > 0
    /\ reads' = [reads EXCEPT ![r].abandoned = @ - 1]
    /\ UNCHANGED <<args, ret, now, mevFile, provider, runs>>
    /\ UNCHANGED cooldownVars
    /\ UNCHANGED pipeVars

NextNet ==
    \E r \in ReadIds :
        \/ NetLookup(r)
        \/ \E outcome \in {"ok", "error", "timeout"} : NetAttempt(r, outcome)
        \/ NetRotate(r)
        \/ NetBackoff(r)

SpecNet == InitNet /\ [][NextNet]_vars

Failed(outcome) == outcome \in {"error", "timeout"}
SubFetches == {r \in ReadIds : reads[r].fn = "readCallWithProvider"}

\* C21: every attempt of a read of the oracle guard, the retry included,
\* runs on the handle the caller supplied
C21_AllAttemptsOnSuppliedHandle ==
    \A r \in SubFetches :
        /\ reads[r].first \in {NoHandle, reads[r].supplied}
        /\ reads[r].second \in {NoHandle, reads[r].supplied}

\* a lookup hands out the endpoint the pointer designates at that moment
LookupTakesPointer(r) ==
    (reads[r].pc \in {"lookup", "relookup"} /\ reads'[r].pc \in {"attempt", "retry"})
        => reads'[r].handle = getReadProvider(provider)

\* an attempt runs on the handle the read holds
AttemptOnHandle(r) ==
    /\ (reads[r].pc = "attempt" /\ reads'[r].pc # "attempt")
          => reads'[r].first = reads[r].handle
    /\ (reads[r].pc = "retry" /\ reads'[r].pc # "retry")
          => reads'[r].second = reads[r].handle

\* C21 (as the code has it): the first attempt of every read of the oracle
\* guard runs on the handle the caller supplied; a retry runs on the handle
\* looked up after the read's rotation, the endpoint the pointer designates
\* at that moment
C21_RetryOnLookedUpHandle ==
    /\ [](\A r \in SubFetches :
             /\ reads[r].first \in {NoHandle, reads[r].supplied}
             /\ reads[r].pc = "attempt" => reads[r].handle = reads[r].supplied)
    /\ [][\A r \in SubFetches :
             /\ (reads[r].pc = "relookup" /\ reads'[r].pc = "retry")
                   => reads'[r].handle = getReadProvider(provider)
             /\ AttemptOnHandle(r)]_vars

\* two reads of the guard have run on different endpoints: one on the
\* supplied handle, the retry of the other on the endpoint rotated to
C21_Witness ==
    \E r1, r2 \in SubFetches :
        /\ r1 # r2
        /\ reads[r1].firstOut = "ok" /\ reads[r1].first = reads[r1].supplied
        /\ reads[r2].supplied = reads[r1].supplied
        /\ reads[r2].secondOut = "ok"
        /\ reads[r2].second # reads[r2].supplied

Rotated == {r \in ReadIds : \/ reads[r].pc \in {"backoff", "relookup", "retry"}
                            \/ reads[r].pc = "settled" /\ Failed(reads[r].firstOut)}

\* C23: the pointer is shared by the reads under way: every read whose
\* first attempt failed has requested exactly one rotation once it is past
\* its failover, and no other rotation is requested; every lookup, the one
\* before a retry included, hands out the endpoint the pointer designates
\* at that moment
C23_SharedPointer ==
    /\ [](/\ provider.rotations = Cardinality(Rotated)
          /\ \A r \in ReadIds :
                /\ r \in Rotated => Failed(reads[r].firstOut)
                /\ (Failed(reads[r].firstOut) /\ reads[r].pc # "failover")
                      => r \in Rotated)
    /\ [][\A r \in ReadIds : LookupTakesPointer(r) /\ AttemptOnHandle(r)]_vars

\* after the rotations of two reads the retry of one of them ran on the
\* endpoint on which its first attempt had just failed
C23_Witness ==
    \E r \in ReadIds :
        /\ Failed(reads[r].firstOut)
        /\ reads[r].second = reads[r].first
        /\ reads[r].second # NoHandle
        /\ provider.rotations >= 2
        /\ \A r2 \in ReadIds : reads[r2].pc = "settled"

(***************************************************************************)
(* THE READS OF ONE RUN.  runProtections awaits each guard (lines          *)
(* 474-497) and each guard awaits its readCall: assessGas reads the fee    *)
(* data (line 118), then the gas estimate (line 156); hasWalletBalance     *)
(* reads the balance (line 322).  The run reaches the next read only when  *)
(* the read before it resolved: a failed fee-data read (line 129) or a     *)
(* failed estimate (line 160) ends the run with gasBad.                    *)
(***************************************************************************)
RunReads == <<"gas", "gas", "walletBalance">>
StepIds == 1..Len(RunReads)

Waiting(step) == [NewRead("readCall", step, NoHandle) EXCEPT !.pc = "waiting"]
Resolved(rd) ==
    rd.pc = "settled" /\ (rd.firstOut = "ok" \/ rd.secondOut = "ok")

InitSteps ==
    /\ args = NoRet
    /\ ret = NoRet
    /\ now = ClockStart
    /\ lastActionAt = EmptyMap
    /\ approvedAt = NeverApproved
    /\ mevFile = AbsentFile
    /\ PipelineIdle
    /\ runs = NoRuns
    /\ provider = [active |-> 0, rotations |-> 0]
    /\ reads = [r \in StepIds |->
                   IF r = 1 THEN NewRead("readCall", RunReads[r], NoHandle)
                   ELSE Waiting(RunReads[r])]

\* the next read is issued while the read before it is still under way
StepBegin_noAwait(r) ==
    /\ r > 1
    /\ reads[r].pc = "waiting"
    /\ reads[r - 1].pc # "waiting"
    /\ reads' = [reads EXCEPT ![r].pc = "lookup"]
    /\ UNCHANGED <<args, ret, now, mevFile, provider, runs>>
    /\ UNCHANGED cooldownVars
    /\ UNCHANGED pipeVars

\* the await of the read before has returned and the run issues its next
\* read (lines 118, 156, 474-479)
StepBegin(r) ==
    /\ r > 1
    /\ reads[r].pc = "waiting"
    /\ Resolved(reads[r - 1])
    /\ reads' = [reads EXCEPT ![r].pc = "lookup"]
    /\ UNCHANGED <<args, ret, now, mevFile, provider, runs>>
    /\ UNCHANGED cooldownVars
    /\ UNCHANGED pipeVars

NextSteps ==
    \E r \in StepIds :
        \/ StepBegin(r)
        \/ NetLookup(r)
        \/ \E outcome \in {"ok", "error", "timeout"} : NetAttempt(r, outcome)
        \/ NetRotate(r)
        \/ NetBackoff(r)
        \/ NetOperationEnds(r)

SpecSteps == InitSteps /\ [][NextSteps]_vars

Begun == {r \in StepIds : reads[r].pc # "waiting"}
TimedOut(rd) ==
    (IF rd.firstOut = "timeout" THEN 1 ELSE 0)
        + (IF rd.secondOut = "timeout" THEN 1 ELSE 0)

\* C22: when a later step of the run has begun, every remote call of an
\* earlier step has completed, also the calls whose deadline expired: no
\* operation of an earlier step is still in flight
C22_NothingInFlightFromEarlierStep ==
    \A r1, r2 \in Begun :
        (r1 < r2 /\ reads[r1].step # reads[r2].step)
            => (reads[r1].pc = "settled" /\ reads[r1].abandoned = 0)

\* C22 (as the code has it): when a read of the run is issued, every read
\* issued before it has settled and resolved; the operations of an earlier
\* read that may still be in flight are those whose deadline expired, at
\* most one per attempt
C22_EarlierReadsSettled ==
    \A r1, r2 \in Begun :
        r1 < r2 => /\ Resolved(reads[r1])
                   /\ reads[r1].abandoned <= TimedOut(reads[r1])

\* the wallet-balance step is under way while the operation of a fee-data
\* attempt that timed out is still in flight
C22_Witness ==
    \E r1, r2 \in Begun :
        /\ r1 < r2
        /\ reads[r1].step = "gas" /\ reads[r2].step = "walletBalance"
        /\ reads[r2].pc \in {"attempt", "retry"}
        /\ reads[r1].firstOut = "timeout" /\ reads[r1].secondOut = "ok"
        /\ reads[r1].abandoned = 1

(***************************************************************************)
(* TERMINATION.  A read (lines 36-55) and a run of runProtections (lines   *)
(* 438-507), each from its start: the read starts with its lookup or its   *)
(* first attempt, the run with the pipeline idle.                          *)
(***************************************************************************)
InitTermination == InitRead \/ Init
NextTermination == NextRead \/ Next
SpecTermination == InitTermination /\ [][NextTermination]_vars

\* the timers of lines 39 and 44 fire and the lookups return
SpecReadFair == SpecRead /\ WF_vars(NextRead)
ReadEventuallySettles == <>(pc = "read.settled")

ReadPcs == {"read.lookup", "read.attempt", "read.failover", "read.backoff",
            "read.relookup", "read.retry", "read.settled"}
Expiries == {i \in Logged("invoke") : calls[i].target = "timeout"}

\* a read has seen at most two deadline expiries and one backoff, and is
\* settled no later than two deadlines and the longest backoff after its start
ReadSettlesInTime ==
    pc \in ReadPcs =>
        /\ Cardinality(Expiries) <= 2
        /\ Cardinality(Logged("backoff")) <= 1
        /\ now - ClockStart <= Cardinality(Expiries) * args.timeoutMs
                               + Cardinality(Logged("backoff"))
                                 * (BACKOFF_MIN_MS + BACKOFF_JITTER_MS - 1)
        /\ Cardinality(Logged("invoke")) = 2 => pc = "read.settled"

\* C24: every read settles after at most two deadline expiries and one
\* backoff, and consequently every run of runProtections that has ended has
\* returned a verdict
C24_ReadsSettleRunsReturn ==
    /\ ReadSettlesInTime
    /\ pc \in {"done", "thrown"} => (pc = "done" /\ verdict # NoVerdict)
====
